---- MODULE Spec2Model ----
(***************************************************************************)
(* Supervised recursion engine of confucius-recursion-sdk: the hardened    *)
(* orchestrator (spawn gate, registry, signed trace, quality gate with     *)
(* retry, depth-3 hash proof), the trace validator and the worker CLI.     *)
(*                                                                         *)
(* JavaScript strings are modelled as sequences of string tokens, so that  *)
(* concatenation, canonical JSON text, SHA-256 and HMAC inputs are all     *)
(* values of one kind.  SHA-256 and HMAC are modelled as collision-free    *)
(* functions of their input text (the text is kept, tagged).               *)
(***************************************************************************)
EXTENDS Integers, Sequences, FiniteSets, TLC

VARIABLES
  cfg,                    \* orchestrator configuration and host environment
  secret,                 \* this.secret of the orchestrator
  runs,                   \* SupervisorRunRegistry.runs: runId -> RunRecord
  totalSpawns,            \* SupervisorRunRegistry.totalSpawns
  events,                 \* SignedTrace.events
  eventSeq,               \* SignedTrace.eventSeq
  runtimeMode,            \* orchestrator runtimeMode: NULL, "real" or "simulated"
  depth3ProofsVerified,   \* orchestrator depth3ProofsVerified
  now,                    \* Date.now()
  call,                   \* the supervisedSpawn call in progress
  prog,                   \* position and locals of the caller (runDepth3Proof or a direct caller)
  hist,                   \* observation log: one entry per subagent execution and gate verdict
  tampered,               \* an exported trace with one field of one event changed
  cli,                    \* the worker CLI process (cli-worker.ts main)
  artifact,               \* the file .confucius/last-proof.json
  guard,                  \* the guard process (guard-agentic.mjs)
  detector,               \* an asleepDetector call: its arguments and what it returned
  retry,                  \* a runWithRetry call: its arguments, its progress and what it returned
  worker,                 \* the worker thread (orchestrator.worker.ts): pendingRequests and the requests made
  manager,                \* runWithWorker on the main thread: its promise and the worker thread it started
  registry,               \* a SupervisorRunRegistry used directly: its map, its counter and the last call
  confucius,              \* a runWithConfucius call: its arguments, its preflight and what it returned
  exported,               \* an array that SignedTrace.export() handed out, and what its holder did to it
  secretLoad,             \* one call of loadSupervisorSecret: the environment value and the Buffer returned
  host                    \* the host side of one subagent execution: the requestSpawn message and what runSubagent was given

\* the library functions called on their own
libVars == <<detector, retry, worker, manager, registry, confucius, exported, secretLoad, host>>

vars == <<cfg, secret, runs, totalSpawns, events, eventSeq, runtimeMode,
          depth3ProofsVerified, now, call, prog, hist, tampered, cli, artifact, guard,
          libVars>>

orchVars == <<runs, totalSpawns, events, eventSeq, runtimeMode, depth3ProofsVerified>>

----------------------------------------------------------------------------
(* Bounds of the model *)

MaxClock == 1          \* Date.now() takes the values 0..MaxClock
MaxCalls == 2          \* direct supervisedSpawn calls made by a free caller

(* Program constants *)

maxAttempts == 2       \* supervisedSpawn passes maxAttempts: 2 to runWithRetry
FrontierDepth == 3     \* the depth that gets a nonce and the hash-proof gate
DefaultMaxDepth == 4   \* cli-worker.ts passes maxDepth: 4
DefaultMaxSpawns == 10 \* cli-worker.ts passes maxSpawns: 10

----------------------------------------------------------------------------
(* JavaScript values *)

NULL == <<"#null">>          \* null
EMPTY == <<>>                \* the empty string ""
UNDEFINED == <<"#undefined">>

Falsy(v) == v \in {NULL, EMPTY, UNDEFINED}

\* x || null
OrNull(v) == IF Falsy(v) THEN NULL ELSE v

\* JSON text of a string-or-null value
JStr(v) == IF v = NULL THEN <<"null">> ELSE <<"\"">> \o v \o <<"\"">>

\* JSON text of a number
JNum(n) == <<ToString(n)>>

\* "key":value, or nothing when the value is undefined (JSON.stringify drops the key)
JMember(key, v) == IF v = UNDEFINED THEN <<>> ELSE <<key, ":">> \o JStr(v) \o <<",">>

JNumMember(key, n) == <<key, ":">> \o JNum(n) \o <<",">>

----------------------------------------------------------------------------
(* supervisor-crypto *)

sha256Hex(text) == <<"sha256">> \o text

hmacHex(key, text) == <<"hmac", key>> \o text

\* stableStringify of an event payload: keys in sorted order
StringifyPayload(p) ==
  <<"{">> \o JMember("agentName", <<p.agentName>>)
          \o JMember("childRunId", p.childRunId)
          \o JNumMember("depth", p.depth)
          \o JNumMember("eventId", p.eventId)
          \o JMember("inputHash", p.inputHash)
          \o JMember("kind", <<p.kind>>)
          \o JMember("note", p.note)
          \o JMember("outputHash", p.outputHash)
          \o JMember("parentRunId", p.parentRunId)
          \o JNumMember("ts", p.ts) \o <<"}">>

signEvent(key, payload) == hmacHex(key, StringifyPayload(payload))

\* timingSafeEqual throws when the two buffers differ in length
SigLengthOk(sig) == Len(sig) >= 1 /\ sig[1] = "hmac"

verifyEventSig(key, payload, sig) == signEvent(key, payload) = sig

\* stableStringify of a spawn input {depth, maxDepth, task?, nonce?, runId?}
StringifyInput(in) ==
  <<"{">> \o JNumMember("depth", in.depth)
          \o JNumMember("maxDepth", in.maxDepth)
          \o JMember("nonce", in.nonce)
          \o JMember("runId", in.runId)
          \o JMember("task", in.task) \o <<"}">>

StringifyRequest(r) ==
  <<"{">> \o JMember("child_name", r.child_name)
          \o <<"input", ":">> \o StringifyInput(r.input) \o <<"}">>

RECURSIVE StringifyRequests(_)
StringifyRequests(rs) ==
  IF rs = <<>> THEN <<>>
  ELSE StringifyRequest(Head(rs)) \o <<",">> \o StringifyRequests(Tail(rs))

\* stableStringify of a subagent output
StringifyOutput(out) ==
  IF ~out.isObject THEN <<"null">>
  ELSE <<"{">>
    \o (IF "computation" \in out.keys
          THEN <<"computation", ":", "\"">> \o out.computation \o <<"\"", ",">> ELSE <<>>)
    \o (IF "hashProof" \in out.keys THEN JMember("hashProof", out.hashProof) ELSE <<>>)
    \o (IF "metric" \in out.keys THEN JNumMember("metric", out.metric) ELSE <<>>)
    \o (IF "spawn_request" \in out.keys
          THEN <<"spawn_request", ":">> \o StringifyRequest(out.spawn_request) \o <<",">>
          ELSE <<>>)
    \o (IF "spawn_requests" \in out.keys
          THEN <<"spawn_requests", ":", "[">> \o StringifyRequests(out.spawn_requests) \o <<"]", ",">>
          ELSE <<>>)
    \o (IF "timestamp" \in out.keys THEN JNumMember("timestamp", out.timestamp) ELSE <<>>)
    \o <<"}">>

\* SignedTrace.hashOf
hashOfInput(in) == sha256Hex(StringifyInput(in))
hashOfOutput(out) == sha256Hex(StringifyOutput(out))

----------------------------------------------------------------------------
(* quality-gates: qualityGate *)

\* the handwave phrases, as word sequences, in the order of the source list
BadPhrases ==
  << <<"i", "guess">>, <<"seems", "like">>, <<"looks", "like">>, <<"probably">>,
     <<"maybe">>, <<"not", "sure">>, <<"cannot", "access">>, <<"no", "access">>,
     <<"i", "did", "not">>, <<"i", "didn't">>, <<"placeholder">>, <<"todo">>,
     <<"tbd">>, <<"coming", "soon">>, <<"not", "implemented">> >>

\* text.includes(phrase)
Includes(text, phrase) ==
  \E i \in 1..Len(text) :
     /\ i + Len(phrase) - 1 <= Len(text)
     /\ SubSeq(text, i, i + Len(phrase) - 1) = phrase

\* containsBadPhrases: the first phrase of the list found in the text, or NULL
containsBadPhrases(text) ==
  LET hits == {i \in 1..Len(BadPhrases) : Includes(text, BadPhrases[i])}
  IN IF hits = {} THEN NULL
     ELSE BadPhrases[CHOOSE i \in hits : \A j \in hits : i <= j]

\* the free text of an output, in which a phrase can occur
OutputText(out) == IF out.isObject /\ "computation" \in out.keys THEN out.computation ELSE <<>>

\* countNumericValues: finite numbers anywhere in the output tree
\* (a request input carries the two numbers depth and maxDepth)
countNumericValues(out) ==
  IF ~out.isObject THEN 0
  ELSE (IF "metric" \in out.keys THEN 1 ELSE 0)
     + (IF "timestamp" \in out.keys THEN 1 ELSE 0)
     + (IF "spawn_request" \in out.keys THEN 2 ELSE 0)
     + (IF "spawn_requests" \in out.keys THEN 2 * Len(out.spawn_requests) ELSE 0)

\* the order in which required keys are reported
KeyOrder == <<"spawn_requests", "spawn_request", "metric", "hashProof", "timestamp">>

MissingKeyErrors(out, requiredKeys) ==
  SelectSeq([i \in 1..Len(KeyOrder) |-> <<"missing_key", KeyOrder[i]>>],
            LAMBDA e : e[2] \in requiredKeys /\ e[2] \notin out.keys)

qualityGate(out, requiredKeys, minNumericCount) ==
  IF ~out.isObject
    THEN [ok |-> FALSE, errors |-> << <<"output_not_object">> >>, numericCount |-> 0]
    ELSE LET bad == containsBadPhrases(OutputText(out))
             errs == MissingKeyErrors(out, requiredKeys)
                 \o (IF countNumericValues(out) < minNumericCount
                       THEN << <<"too_few_numeric_values">> >> ELSE <<>>)
                 \o (IF bad # NULL THEN << <<"handwave_phrase">> \o bad >> ELSE <<>>)
         IN [ok |-> errs = <<>>, errors |-> errs, numericCount |-> countNumericValues(out)]

----------------------------------------------------------------------------
(* supervisor-registry *)

\* mintRunId: `${agentName}_${ts}_${rand}`; serial stands for the random suffix
RunIdOf(agentName, ts, serial) == <<agentName, "_", ToString(ts), "_", ToString(serial)>>

\* a lookup that never finds a run
hasRunNever(reg, runId) == FALSE

hasRun(reg, runId) == runId \in DOMAIN reg

RunRecord(runId, parentRunId, agentName, depth, inputHash, nonce, ts) ==
  [runId |-> runId, parentRunId |-> OrNull(parentRunId), agentName |-> agentName,
   depth |-> depth, inputHash |-> inputHash, outputHash |-> NULL, nonce |-> nonce,
   status |-> "spawned", spawnedAt |-> ts, returnedAt |-> UNDEFINED]

\* a registerSpawn that stores nothing
registerSpawnRunsForgets(reg, rec) == reg

\* registerSpawn, on a runId that is not yet known
registerSpawnRuns(reg, rec) == [r \in DOMAIN reg \cup {rec.runId} |->
                                  IF r = rec.runId THEN rec ELSE reg[r]]

\* a registerReturn that leaves the status as it was
registerReturnRunsKeepsStatus(reg, runId, outputHash, ts) ==
  [reg EXCEPT ![runId] = [@ EXCEPT !.outputHash = outputHash,
                                   !.returnedAt = <<ToString(ts)>>]]

\* registerReturn, on a known runId
registerReturnRuns(reg, runId, outputHash, ts) ==
  [reg EXCEPT ![runId] = [@ EXCEPT !.outputHash = outputHash,
                                   !.status = "returned",
                                   !.returnedAt = <<ToString(ts)>>]]

----------------------------------------------------------------------------
(* signed-trace *)

Unsigned(kind, depth, agentName, parentRunId, childRunId, inputHash, outputHash, note) ==
  [kind |-> kind, depth |-> depth, agentName |-> agentName, parentRunId |-> parentRunId,
   childRunId |-> childRunId, inputHash |-> inputHash, outputHash |-> outputHash,
   note |-> note]

\* the payload addEvent builds from an unsigned event
Payload(seq, ts, u) ==
  [eventId |-> seq, ts |-> ts, kind |-> u.kind, depth |-> u.depth,
   agentName |-> u.agentName, parentRunId |-> OrNull(u.parentRunId),
   childRunId |-> OrNull(u.childRunId), inputHash |-> OrNull(u.inputHash),
   outputHash |-> OrNull(u.outputHash), note |-> OrNull(u.note)]

SignedWithOtherKey(key, seq, ts, u) ==
  [eventId |-> seq, ts |-> ts, kind |-> u.kind, depth |-> u.depth,
   agentName |-> u.agentName, parentRunId |-> OrNull(u.parentRunId),
   childRunId |-> OrNull(u.childRunId), inputHash |-> OrNull(u.inputHash),
   outputHash |-> OrNull(u.outputHash), note |-> OrNull(u.note),
   supervisorSig |-> signEvent("forged", Payload(seq, ts, u))]

\* a signing that leaves the run id out of spawn events
SignedWithoutSpawnRunId(key, seq, ts, u) ==
  [eventId |-> seq, ts |-> ts, kind |-> u.kind, depth |-> u.depth,
   agentName |-> u.agentName, parentRunId |-> OrNull(u.parentRunId),
   childRunId |-> IF u.kind = "spawn" THEN NULL ELSE OrNull(u.childRunId),
   inputHash |-> OrNull(u.inputHash),
   outputHash |-> OrNull(u.outputHash), note |-> OrNull(u.note),
   supervisorSig |-> signEvent(key, Payload(seq, ts, u))]

\* the signed event addEvent appends
Signed(key, seq, ts, u) ==
  [eventId |-> seq, ts |-> ts, kind |-> u.kind, depth |-> u.depth,
   agentName |-> u.agentName, parentRunId |-> OrNull(u.parentRunId),
   childRunId |-> OrNull(u.childRunId), inputHash |-> OrNull(u.inputHash),
   outputHash |-> OrNull(u.outputHash), note |-> OrNull(u.note),
   supervisorSig |-> signEvent(key, Payload(seq, ts, u))]

\* an addEvent that puts the new event in front of the others
addEventAtFront(tr, u) == <<Signed(secret, Len(tr) + 1, now, u)>> \o tr

\* SignedTrace.addEvent applied to a trace tr whose eventSeq is Len(tr)
addEvent(tr, u) == Append(tr, Signed(secret, Len(tr) + 1, now, u))

----------------------------------------------------------------------------
(* trace-validation *)

\* the payload validateTrace reconstructs from a stored event
ReconstructPayload(ev) ==
  [eventId |-> ev.eventId, ts |-> ev.ts, kind |-> ev.kind, depth |-> ev.depth,
   agentName |-> ev.agentName, parentRunId |-> OrNull(ev.parentRunId),
   childRunId |-> OrNull(ev.childRunId), inputHash |-> OrNull(ev.inputHash),
   outputHash |-> OrNull(ev.outputHash), note |-> OrNull(ev.note)]

\* the errors validateTrace pushes for one event, in order
EventErrors(key, ev, reg) ==
  (IF ~verifyEventSig(key, ReconstructPayload(ev), ev.supervisorSig)
     THEN << [eventId |-> ev.eventId, reason |-> "bad_signature"] >> ELSE <<>>)
  \o (IF ~Falsy(ev.childRunId) /\ ~hasRun(reg, ev.childRunId)
        THEN << [eventId |-> ev.eventId, reason |-> "child_run_missing_in_registry"] >>
        ELSE <<>>)
  \o (IF /\ ev.kind = "return" /\ ~Falsy(ev.childRunId) /\ hasRun(reg, ev.childRunId)
         /\ ~Falsy(reg[ev.childRunId].outputHash) /\ ~Falsy(ev.outputHash)
         /\ reg[ev.childRunId].outputHash # ev.outputHash
        THEN << [eventId |-> ev.eventId, reason |-> "output_hash_mismatch"] >>
        ELSE <<>>)

RECURSIVE AllEventErrors(_, _, _)
AllEventErrors(key, tr, reg) ==
  IF tr = <<>> THEN <<>>
  ELSE EventErrors(key, Head(tr), reg) \o AllEventErrors(key, Tail(tr), reg)

\* validateTrace; threw: verifyEventSig raised on a signature of another length
validateTrace(key, tr, reg) ==
  IF \E k \in 1..Len(tr) : ~SigLengthOk(tr[k].supervisorSig)
    THEN [threw |-> TRUE, ok |-> FALSE, errors |-> <<>>, eventsChecked |-> 0]
    ELSE LET errs == AllEventErrors(key, tr, reg)
         IN [threw |-> FALSE, ok |-> errs = <<>>, errors |-> errs, eventsChecked |-> Len(tr)]

----------------------------------------------------------------------------
(* Subagent inputs and outputs *)

Input(depth, maxDepth, task) ==
  [depth |-> depth, maxDepth |-> maxDepth, task |-> task,
   nonce |-> UNDEFINED, runId |-> UNDEFINED, absent |-> FALSE]

NoInput == [depth |-> 0, maxDepth |-> 0, task |-> UNDEFINED, nonce |-> UNDEFINED,
            runId |-> UNDEFINED, absent |-> TRUE]

NoRequest == [child_name |-> EMPTY, input |-> NoInput]

Request(name, in) == [child_name |-> <<name>>, input |-> in]

EmptyObject ==
  [isObject |-> TRUE, keys |-> {}, computation |-> <<>>, hashProof |-> NULL, metric |-> 0,
   timestamp |-> 0, spawn_request |-> NoRequest, spawn_requests |-> <<>>]

NotObject == [EmptyObject EXCEPT !.isObject = FALSE]

Depth1Names == {"depth1_orchestrator"}
Depth2Names == {"depth2_worker_a", "depth2_worker_b"}
Depth3Names == {"depth3_micro_a", "depth3_micro_b"}

\* agentName.slice(-1)
LastChar(name) == IF name \in {"depth2_worker_b", "depth3_micro_b"} THEN "b"
                  ELSE IF name = "depth1_orchestrator" THEN "r" ELSE "a"

Depth3MicroName(c) == IF c = "b" THEN "depth3_micro_b"
                      ELSE IF c = "a" THEN "depth3_micro_a" ELSE "depth3_micro_r"

\* the random metric of a simulated depth-2 worker
MetricChoices == {7}

Depth1Shape(maxDepth) ==
  [EmptyObject EXCEPT
     !.keys = {"spawn_requests"},
     !.spawn_requests =
        << Request("depth2_worker_a", Input(2, maxDepth, <<"Calculate", "set", "A">>)),
           Request("depth2_worker_b", Input(2, maxDepth, <<"Calculate", "set", "B">>)) >>]

Depth2Shape(agentName, maxDepth, metric) ==
  [EmptyObject EXCEPT
     !.keys = {"metric", "computation", "spawn_request"},
     !.metric = metric,
     !.computation = <<"contrast_analysis">>,
     !.spawn_request = Request(Depth3MicroName(LastChar(agentName)),
                               Input(3, maxDepth, UNDEFINED))]

ProofShape(hashProof, ts) ==
  [EmptyObject EXCEPT !.keys = {"hashProof", "timestamp"},
                      !.hashProof = hashProof, !.timestamp = ts]

\* `${nonce}:${runId}`
ProofText(nonce, runId) == nonce \o <<":">> \o runId

\* simulateForTesting with a depth-3 branch that ignores the injected nonce
simulateForTestingNoNonce(agentName, in, ts) ==
  IF agentName \in Depth1Names THEN {Depth1Shape(in.maxDepth)}
  ELSE IF agentName \in Depth2Names
    THEN {Depth2Shape(agentName, in.maxDepth, m) : m \in MetricChoices}
  ELSE {ProofShape(<<"simulation_no_nonce">>, ts)}

\* simulateForTesting: the set of outputs it can return (the metric is random)
simulateForTesting(agentName, in, ts) ==
  IF agentName \in Depth1Names THEN {Depth1Shape(in.maxDepth)}
  ELSE IF agentName \in Depth2Names
    THEN {Depth2Shape(agentName, in.maxDepth, m) : m \in MetricChoices}
  ELSE IF ~Falsy(in.nonce) /\ ~Falsy(in.runId)
    THEN {ProofShape(sha256Hex(ProofText(in.nonce, in.runId)), ts)}
  ELSE {ProofShape(<<"simulation_no_nonce">>, ts)}

\* what an adapter or a host subagent may answer: the expected shape, and per role
\* two answers that are wrong in the ways that role can be wrong (depth 1: not an
\* object, one request only; depth 2: no child_name, handwave text; depth 3: a
\* guessed hash, a missing timestamp)
HostOutputs(agentName, depth, in, ts) ==
  LET good == simulateForTesting(agentName, in, ts)
  IN good
     \cup (IF depth <= 1
             THEN {NotObject,
                   [Depth1Shape(in.maxDepth) EXCEPT
                      !.spawn_requests = <<Head(Depth1Shape(in.maxDepth).spawn_requests)>>]}
           ELSE IF depth = 2
             THEN {[o EXCEPT !.spawn_request = [@ EXCEPT !.child_name = EMPTY]] : o \in good}
                  \cup {[o EXCEPT !.computation = <<"probably", "fine">>] : o \in good}
           ELSE {ProofShape(sha256Hex(<<"guess">>), ts),
                 [ProofShape(sha256Hex(<<"guess">>), ts) EXCEPT !.keys = {"hashProof"}]})

(* runWithRetry: the loop test *)

\* a loop that makes one attempt more than it was given
RetryLoopGuardOneMore(attempt, maxAttempts_) == attempt <= maxAttempts_ + 1

\* a loop test that stops one attempt early
RetryLoopGuardStrict(attempt, maxAttempts_) == attempt < maxAttempts_

\* attempt <= maxAttempts
RetryLoopGuard(attempt, maxAttempts_) == attempt <= maxAttempts_

----------------------------------------------------------------------------
(* hardened-orchestrator: supervisedSpawn *)

NoRet == [ok |-> FALSE, reason |-> "none", runId |-> EMPTY, output |-> EmptyObject,
          attempts |-> 0]

IdleCall ==
  [phase |-> "idle", depth |-> 0, agentName |-> "none", parentRunId |-> NULL,
   requiredKeys |-> {}, minNumericCount |-> 0, input |-> NoInput, runId |-> EMPTY,
   nonce |-> NULL, attempt |-> 0, ret |-> NoRet]

Args(parentRunId, agentName, depth, in, requiredKeys, minNumericCount) ==
  [parentRunId |-> parentRunId, agentName |-> agentName, depth |-> depth, input |-> in,
   requiredKeys |-> requiredKeys, minNumericCount |-> minNumericCount]

enforceSpawnGateDepthOnly(requestedDepth) ==
  IF requestedDepth >= cfg.maxDepth THEN [ok |-> FALSE, reason |-> "depth_limit"]
  ELSE [ok |-> TRUE, reason |-> "none"]

enforceSpawnGateOffByOne(requestedDepth) ==
  IF requestedDepth > cfg.maxDepth THEN [ok |-> FALSE, reason |-> "depth_limit"]
  ELSE IF totalSpawns >= cfg.maxSpawns THEN [ok |-> FALSE, reason |-> "spawn_limit"]
  ELSE [ok |-> TRUE, reason |-> "none"]

\* a gate that lets one spawn more than the budget through
enforceSpawnGateBudgetPlusOne(requestedDepth) ==
  IF requestedDepth >= cfg.maxDepth THEN [ok |-> FALSE, reason |-> "depth_limit"]
  ELSE IF totalSpawns > cfg.maxSpawns THEN [ok |-> FALSE, reason |-> "spawn_limit"]
  ELSE [ok |-> TRUE, reason |-> "none"]

\* a gate that looks at the spawn budget before the depth
enforceSpawnGateSpawnsFirst(requestedDepth) ==
  IF totalSpawns >= cfg.maxSpawns THEN [ok |-> FALSE, reason |-> "spawn_limit"]
  ELSE IF requestedDepth >= cfg.maxDepth THEN [ok |-> FALSE, reason |-> "depth_limit"]
  ELSE [ok |-> TRUE, reason |-> "none"]

enforceSpawnGate(requestedDepth) ==
  IF requestedDepth >= cfg.maxDepth THEN [ok |-> FALSE, reason |-> "depth_limit"]
  ELSE IF totalSpawns >= cfg.maxSpawns THEN [ok |-> FALSE, reason |-> "spawn_limit"]
  ELSE [ok |-> TRUE, reason |-> "none"]

\* the run ids mintRunId can return: a fresh one, or (same name, same millisecond,
\* same random suffix) one the registry already holds
MintChoices(agentName) ==
  {RunIdOf(agentName, now, totalSpawns)}
    \cup {r \in DOMAIN runs : runs[r].agentName = agentName /\ runs[r].spawnedAt = now}

\* crypto.randomBytes(16).toString('hex'): a value not used before
FreshNonce == <<"nonce", ToString(totalSpawns)>>

\* the input object after supervisedSpawn has injected nonce and runId (depth 3 only)
InjectedInput(in, depth, runId) ==
  IF depth = FrontierDepth
    THEN [in EXCEPT !.nonce = FreshNonce, !.runId = runId, !.absent = FALSE]
    ELSE in

\* supervisedSpawn from its entry to the first attempt: spawn gate, mintRunId, nonce,
\* registerSpawn and the spawn event.  runId is the id mintRunId returned.
SupervisedSpawnBegin(a, runId) ==
  LET gate == enforceSpawnGate(a.depth)
      in2 == InjectedInput(a.input, a.depth, runId)
      nonce == IF a.depth = FrontierDepth THEN FreshNonce ELSE NULL
      inputHash == hashOfInput(in2)
      base == [IdleCall EXCEPT !.depth = a.depth, !.agentName = a.agentName,
                               !.parentRunId = a.parentRunId,
                               !.requiredKeys = a.requiredKeys,
                               !.minNumericCount = a.minNumericCount]
  IN IF ~gate.ok
       THEN /\ events' = addEvent(events, Unsigned("limit", a.depth, "supervisor",
                                    a.parentRunId, NULL, UNDEFINED, UNDEFINED,
                                    <<gate.reason>>))
            /\ eventSeq' = eventSeq + 1
            /\ call' = [base EXCEPT !.phase = "done",
                                    !.ret = [NoRet EXCEPT !.reason = gate.reason]]
            /\ UNCHANGED <<runs, totalSpawns, runtimeMode, depth3ProofsVerified>>
     ELSE IF hasRun(runs, runId)
       THEN \* registerSpawn throws Duplicate runId
            /\ call' = [base EXCEPT !.phase = "threw", !.input = in2, !.runId = runId,
                                    !.nonce = nonce]
            /\ UNCHANGED orchVars
     ELSE /\ runs' = registerSpawnRuns(runs, RunRecord(runId, a.parentRunId, a.agentName,
                                                     a.depth, inputHash, nonce, now))
          /\ totalSpawns' = totalSpawns + 1
          /\ events' = addEvent(events, Unsigned("spawn", a.depth, a.agentName,
                                  a.parentRunId, runId, inputHash, UNDEFINED, UNDEFINED))
          /\ eventSeq' = eventSeq + 1
          /\ call' = [base EXCEPT !.phase = "attempt", !.input = in2, !.runId = runId,
                                  !.nonce = nonce, !.attempt = 1]
          /\ UNCHANGED <<runtimeMode, depth3ProofsVerified>>

verifyDepth3ProofNoCompare(runId, out, nonce) ==
  IF Falsy(nonce) THEN [ok |-> FALSE, errors |-> << <<"depth3_missing_nonce">> >>, numericCount |-> 0]
  ELSE IF Falsy(out.hashProof)
    THEN [ok |-> FALSE, errors |-> << <<"depth3_missing_hashProof">> >>, numericCount |-> 0]
  ELSE [ok |-> TRUE, errors |-> <<>>, numericCount |-> 0]

\* verifyDepth3Proof, its verdict (on ok it also records the proof)
verifyDepth3Proof(runId, out, nonce) ==
  IF Falsy(nonce) THEN [ok |-> FALSE, errors |-> << <<"depth3_missing_nonce">> >>, numericCount |-> 0]
  ELSE IF Falsy(out.hashProof)
    THEN [ok |-> FALSE, errors |-> << <<"depth3_missing_hashProof">> >>, numericCount |-> 0]
  ELSE IF out.hashProof # sha256Hex(ProofText(nonce, runId))
    THEN [ok |-> FALSE, errors |-> << <<"depth3_hash_proof_mismatch">> >>, numericCount |-> 0]
  ELSE [ok |-> TRUE, errors |-> <<>>, numericCount |-> 0]

\* gateFn of supervisedSpawn
gateFn(c, out) ==
  LET gate == qualityGate(out, c.requiredKeys, c.minNumericCount)
  IN IF c.depth = FrontierDepth /\ gate.ok
       THEN verifyDepth3Proof(c.runId, out, c.nonce)
       ELSE gate

\* attemptFn after the subagent has answered with out, then gateFn and the retry
\* decision of runWithRetry.  tr and rm are the trace and runtimeMode at that point.
AttemptReturns(tr, rm, out) ==
  LET outputHash == hashOfOutput(out)
      gate == gateFn(call, out)
  IN /\ runs' = registerReturnRuns(runs, call.runId, outputHash, now)
     /\ events' = addEvent(tr, Unsigned("return", call.depth, call.agentName,
                             call.parentRunId, call.runId, UNDEFINED, outputHash,
                             UNDEFINED))
     /\ eventSeq' = Len(tr) + 1
     /\ runtimeMode' = rm
     /\ depth3ProofsVerified' =
          IF call.depth = FrontierDepth /\ gate.ok
            THEN Append(depth3ProofsVerified,
                        [runId |-> call.runId, nonce |-> call.nonce,
                         hashProof |-> out.hashProof])
            ELSE depth3ProofsVerified
     /\ hist' = Append(hist, [runId |-> call.runId, attempt |-> call.attempt,
                              gateOk |-> gate.ok, outputHash |-> outputHash])
     /\ call' = IF gate.ok
                  THEN [call EXCEPT !.phase = "done",
                          !.ret = [ok |-> TRUE, reason |-> "none", runId |-> call.runId,
                                   output |-> out, attempts |-> call.attempt]]
                ELSE IF RetryLoopGuard(call.attempt + 1, maxAttempts)
                  THEN [call EXCEPT !.phase = "attempt", !.attempt = @ + 1]
                ELSE [call EXCEPT !.phase = "done",
                        !.ret = [NoRet EXCEPT !.reason = "quality_gate_failed",
                                              !.runId = call.runId,
                                              !.attempts = maxAttempts]]
     /\ UNCHANGED totalSpawns

\* a test that takes the mode for unset every time
ModeUnsetAlways(rm) == TRUE

\* this.runtimeMode === null
ModeUnset(rm) == rm = "null"

StrictNeverRefuses == FALSE

\* if (this.strictMode), reached when there is neither adapter nor runSubagent
StrictRefuses == cfg.strictMode

\* simulateSubagentExecution up to its first suspension: the adapter call, the
\* strict-mode refusal, the simulation, or the runSubagent call
Attempt ==
  /\ call.phase = "attempt"
  /\ UNCHANGED <<cfg, secret, now, prog, tampered, cli, artifact, guard, libVars>>
  /\ IF cfg.hasAdapter
       THEN /\ call' = [call EXCEPT !.phase = "await"]
            /\ UNCHANGED <<orchVars, hist>>
     ELSE IF ~cfg.hasRunSubagent
       THEN IF StrictRefuses
              THEN /\ events' = addEvent(events, Unsigned("limit", call.input.depth,
                                           "supervisor", NULL, call.runId, UNDEFINED,
                                           UNDEFINED, <<"tool_missing_strict">>))
                   /\ eventSeq' = eventSeq + 1
                   /\ call' = [call EXCEPT !.phase = "threw"]
                   /\ UNCHANGED <<runs, totalSpawns, runtimeMode, depth3ProofsVerified, hist>>
            ELSE \E out \in simulateForTesting(call.agentName, call.input, now) :
                   IF ModeUnset(runtimeMode)
                     THEN AttemptReturns(
                            addEvent(events, Unsigned("limit", 0, "supervisor", NULL, NULL,
                                       UNDEFINED, UNDEFINED, <<"simulation_warning">>)),
                            "simulated", out)
                     ELSE AttemptReturns(events, runtimeMode, out)
     ELSE /\ runtimeMode' = IF ModeUnset(runtimeMode) THEN "real" ELSE runtimeMode
          /\ call' = [call EXCEPT !.phase = "await"]
          /\ UNCHANGED <<runs, totalSpawns, events, eventSeq, depth3ProofsVerified, hist>>

\* the adapter (or runSubagent) answers with an output
HostReply ==
  /\ call.phase = "await"
  /\ UNCHANGED <<cfg, secret, now, prog, tampered, cli, artifact, guard, libVars>>
  /\ \E out \in HostOutputs(call.agentName, call.depth, call.input, now) :
       AttemptReturns(events, runtimeMode, out)

\* the adapter rejects or answers without output or runId; runSubagent rejects or
\* answers with text that is not JSON: simulateSubagentExecution throws
HostFails ==
  /\ call.phase = "await"
  /\ call' = [call EXCEPT !.phase = "threw"]
  /\ UNCHANGED <<cfg, secret, now, prog, tampered, cli, artifact, guard, libVars, orchVars, hist>>

----------------------------------------------------------------------------
(* hardened-orchestrator: runDepth3Proof *)

NoVerification == [allSignaturesValid |-> FALSE, depth3ProofVerified |-> FALSE,
                   depth3Proofs |-> <<>>, errors |-> <<>>]

NoResult == [ok |-> FALSE, reason |-> "none", maxDepth |-> 0, deepestDepthReached |-> 0,
             spawnsExecuted |-> 0, runtimeMode |-> "null", strictMode |-> FALSE,
             verification |-> NoVerification, trace |-> <<>>, depth2Outputs |-> <<>>]

InitProg(pc) == [pc |-> pc, i |-> 0, depth1 |-> NoRet, d2 |-> NoRet, spawnReqs |-> <<>>,
                 depth2Outputs |-> <<>>, result |-> NoResult, calls |-> 0]

\* fail(reason)
fail(reason) ==
  [NoResult EXCEPT !.reason = reason, !.maxDepth = cfg.maxDepth,
                   !.spawnsExecuted = totalSpawns,
                   !.runtimeMode = IF runtimeMode = "null" THEN "unknown" ELSE runtimeMode,
                   !.strictMode = cfg.strictMode, !.trace = events]

Finished(res) == prog' = [prog EXCEPT !.pc = "done", !.result = res]

\* runDepth3Proof, from its entry into the depth-1 supervisedSpawn
SpawnDepth1 ==
  /\ prog.pc = "start"
  /\ \E runId \in MintChoices("depth1_orchestrator") :
       SupervisedSpawnBegin(Args(NULL, "depth1_orchestrator", 1,
                                 Input(1, cfg.maxDepth, UNDEFINED), {"spawn_requests"}, 0),
                            runId)
  /\ prog' = [prog EXCEPT !.pc = "d1"]
  /\ UNCHANGED <<cfg, secret, now, hist, tampered, cli, artifact, guard, libVars>>

\* the depth-1 spawn has returned
AfterDepth1 ==
  /\ prog.pc = "d1" /\ call.phase = "done"
  /\ LET d1 == call.ret
         spawnReqs == IF d1.ok /\ "spawn_requests" \in d1.output.keys
                        THEN d1.output.spawn_requests ELSE <<>>
     IN IF ~d1.ok THEN Finished(fail(d1.reason))
        ELSE IF Len(spawnReqs) # 2 THEN Finished(fail("depth1_missing_two_requests"))
        ELSE prog' = [prog EXCEPT !.pc = "loop", !.i = 1, !.depth1 = d1,
                                  !.spawnReqs = spawnReqs]
  /\ call' = IdleCall
  /\ UNCHANGED <<cfg, secret, now, hist, tampered, cli, artifact, guard, libVars, orchVars>>

DefaultDepth2Name(i) == IF i = 1 THEN "depth2_worker_a" ELSE "depth2_worker_b"

\* req.input || {depth, maxDepth}
InputOr(in, depth) == IF in.absent THEN Input(depth, cfg.maxDepth, UNDEFINED) ELSE in

\* the loop body up to the depth-2 supervisedSpawn
SpawnDepth2 ==
  /\ prog.pc = "loop" /\ prog.i <= Len(prog.spawnReqs)
  /\ LET req == prog.spawnReqs[prog.i]
         name == IF Falsy(req.child_name) THEN DefaultDepth2Name(prog.i)
                 ELSE req.child_name[1]
     IN \E runId \in MintChoices(name) :
          SupervisedSpawnBegin(Args(prog.depth1.runId, name, 2, InputOr(req.input, 2),
                                    {"spawn_request", "metric"}, 1), runId)
  /\ prog' = [prog EXCEPT !.pc = "d2"]
  /\ UNCHANGED <<cfg, secret, now, hist, tampered, cli, artifact, guard, libVars>>

\* the depth-2 spawn has returned
AfterDepth2 ==
  /\ prog.pc = "d2" /\ call.phase = "done"
  /\ LET d2 == call.ret
     IN IF ~d2.ok THEN Finished(fail(d2.reason))
        ELSE IF Falsy(d2.output.spawn_request.child_name)
          THEN Finished(fail("depth2_missing_depth3_request"))
        ELSE prog' = [prog EXCEPT !.pc = "spawn3", !.d2 = d2,
                                  !.depth2Outputs = Append(@, d2.output)]
  /\ call' = IdleCall
  /\ UNCHANGED <<cfg, secret, now, hist, tampered, cli, artifact, guard, libVars, orchVars>>

\* the depth-3 supervisedSpawn; its input is the object inside the depth-2 output,
\* so the injected nonce and runId appear in depth2Outputs as well
SpawnDepth3 ==
  /\ prog.pc = "spawn3"
  /\ LET d3req == prog.d2.output.spawn_request
         name == d3req.child_name[1]
         in == InputOr(d3req.input, 3)
     IN \E runId \in MintChoices(name) :
          /\ SupervisedSpawnBegin(Args(prog.d2.runId, name, 3, in,
                                       {"hashProof", "timestamp"}, 1), runId)
          /\ LET injected == IF enforceSpawnGate(3).ok /\ ~d3req.input.absent
                               THEN InjectedInput(in, 3, runId) ELSE d3req.input
                 out2 == [prog.d2.output EXCEPT !.spawn_request.input = injected]
             IN prog' = [prog EXCEPT !.pc = "d3", !.d2.output = out2,
                           !.depth2Outputs[prog.i] = out2]
  /\ UNCHANGED <<cfg, secret, now, hist, tampered, cli, artifact, guard, libVars>>

\* the depth-3 spawn has returned
AfterDepth3 ==
  /\ prog.pc = "d3" /\ call.phase = "done"
  /\ IF ~call.ret.ok THEN Finished(fail(call.ret.reason))
     ELSE prog' = [prog EXCEPT !.pc = "loop", !.i = @ + 1]
  /\ call' = IdleCall
  /\ UNCHANGED <<cfg, secret, now, hist, tampered, cli, artifact, guard, libVars, orchVars>>

\* after the loop: the merge event, validateTrace and the result
Merge ==
  /\ prog.pc = "loop" /\ prog.i > Len(prog.spawnReqs)
  /\ LET tr == addEvent(events, Unsigned("merge", 0, "supervisor", NULL, NULL, UNDEFINED,
                                         UNDEFINED, <<"merged_depth2_depth3_results">>))
         verification == validateTrace(secret, tr, runs)
         depth3ProofVerified == Len(depth3ProofsVerified) = 2
     IN /\ events' = tr
        /\ eventSeq' = eventSeq + 1
        /\ IF verification.threw
             THEN prog' = [prog EXCEPT !.pc = "crashed"]
             ELSE Finished(
                    [ok |-> verification.ok /\ depth3ProofVerified,
                     reason |-> "none",
                     maxDepth |-> cfg.maxDepth,
                     deepestDepthReached |-> IF verification.ok THEN 3 ELSE 0,
                     spawnsExecuted |-> totalSpawns,
                     runtimeMode |-> runtimeMode,
                     strictMode |-> cfg.strictMode,
                     verification |->
                       [allSignaturesValid |-> verification.ok,
                        depth3ProofVerified |-> depth3ProofVerified,
                        depth3Proofs |-> depth3ProofsVerified,
                        errors |-> verification.errors],
                     trace |-> tr,
                     depth2Outputs |-> prog.depth2Outputs])
  /\ UNCHANGED <<cfg, secret, now, hist, tampered, cli, artifact, guard, libVars, call,
                 runs, totalSpawns, runtimeMode, depth3ProofsVerified>>

\* an exception inside supervisedSpawn leaves runDepth3Proof: the promise rejects
Rejects ==
  /\ prog.pc \in {"d1", "d2", "d3"} /\ call.phase = "threw"
  /\ prog' = [prog EXCEPT !.pc = "crashed"]
  /\ call' = IdleCall
  /\ UNCHANGED <<cfg, secret, now, hist, tampered, cli, artifact, guard, libVars, orchVars>>

----------------------------------------------------------------------------
(* A caller that uses supervisedSpawn directly *)

FreeName(depth) == IF depth <= 1 THEN "depth1_orchestrator"
                   ELSE IF depth = 2 THEN "depth2_worker_a" ELSE "depth3_micro_a"

FreeKeys(depth) == IF depth <= 1 THEN {"spawn_requests"}
                   ELSE IF depth = 2 THEN {"spawn_request", "metric"}
                   ELSE {"hashProof", "timestamp"}

FreeDepths == {1, 3, 4}

FreeSpawn ==
  /\ prog.pc = "free" /\ call.phase = "idle" /\ prog.calls < MaxCalls
  /\ \E depth \in FreeDepths :
       \E runId \in MintChoices(FreeName(depth)) :
          SupervisedSpawnBegin(Args(NULL, FreeName(depth), depth,
                                    Input(depth, cfg.maxDepth, UNDEFINED),
                                    FreeKeys(depth), IF depth <= 1 THEN 0 ELSE 1), runId)
  /\ prog' = [prog EXCEPT !.calls = @ + 1]
  /\ UNCHANGED <<cfg, secret, now, hist, tampered, cli, artifact, guard, libVars>>

\* the caller takes the result, or catches the exception
FreeReturn ==
  /\ prog.pc = "free" /\ call.phase \in {"done", "threw"}
  /\ call' = IdleCall
  /\ UNCHANGED <<cfg, secret, now, hist, tampered, cli, artifact, guard, libVars, prog, orchVars>>

\* time passes while no synchronous code runs
Tick ==
  /\ now < MaxClock
  /\ call.phase = "idle" /\ prog.pc \in {"start", "free"}
  /\ now' = now + 1
  /\ UNCHANGED <<cfg, secret, hist, tampered, cli, artifact, guard, libVars, call, prog, orchVars>>

----------------------------------------------------------------------------
(* The orchestrator under every configuration *)

\* <<maxDepth, maxSpawns>> given to the constructor
ProofLimits == {<<0, 5>>, <<2, 5>>, <<3, 5>>, <<4, 0>>, <<4, 1>>, <<4, 2>>, <<4, 3>>,
                <<4, 4>>, <<4, 5>>, <<5, 5>>}
FreeLimits == {<<3, 2>>, <<4, 0>>, <<4, 2>>, <<5, 2>>}

\* <<spawnAdapter given, globalThis.runSubagent defined, strictMode>>
Hosts == {<<TRUE, FALSE, FALSE>>, <<FALSE, TRUE, TRUE>>,
          <<FALSE, FALSE, FALSE>>, <<FALSE, FALSE, TRUE>>}

Config(lim, env) == [maxDepth |-> lim[1], maxSpawns |-> lim[2], hasAdapter |-> env[1],
                      hasRunSubagent |-> env[2], strictMode |-> env[3]]

NoTamper == [done |-> FALSE, k |-> 0, field |-> "none", trace |-> <<>>,
             validation |-> [threw |-> FALSE, ok |-> TRUE, errors |-> <<>>,
                             eventsChecked |-> 0]]

NoCli == [pc |-> "none", strictMode |-> FALSE, forceSleep |-> FALSE,
          hasRunSubagent |-> FALSE, exitCode |-> 0, wrote |-> FALSE,
          reason |-> "none"]

NoEngagement == [hasPreflightOk |-> FALSE, hasPlanCreated |-> FALSE,
                 hasProofVerified |-> FALSE, hasSpawnOrRequest |-> FALSE,
                 hasQualityGatePass |-> FALSE]

\* no file .confucius/last-proof.json.  content: "object", "null" (the JSON text
\* null) or "invalid" (not JSON); ok is a JavaScript value: "true", "false", "1"
\* (truthy, not true) or "undefined"; stamp names the timestamp field the file has
NoArtifact == [exists |-> FALSE, content |-> "object", ok |-> "undefined",
               strictMode |-> FALSE, forceSleep |-> FALSE, workerMode |-> FALSE,
               runtimeMode |-> "unknown", engagement |-> NoEngagement,
               stamp |-> "timestampMs", timestampMs |-> 0]

NoGuard == [pc |-> "none", agenticEnv |-> FALSE, maxAgeMin |-> 0, exitCode |-> 0,
            now |-> 0]

NoDetector == [pc |-> "none", trace |-> <<>>, allSignaturesValid |-> FALSE,
               runtimeMode |-> "null", strictMode |-> FALSE,
               contractSatisfied |-> FALSE, engagement |-> NoEngagement]

IdleDetector == detector = NoDetector

NoRetry == [pc |-> "none", maxAttempts |-> 0, passing |-> {}, attempt |-> 0,
            called |-> <<>>, results |-> <<>>, last |-> "null",
            ret |-> [ok |-> FALSE, attempts |-> 0, result |-> "undefined",
                     lastResult |-> "undefined", reason |-> "undefined"]]

IdleRetry == retry = NoRetry

\* pendingRequests maps an id to the request (its index in reqs) whose resolver it
\* holds; lastMsg is the modelResult handled last, handled counts them
NoWorker == [pc |-> "none", pendingRequests |-> <<>>, reqs |-> <<>>, settles |-> <<>>,
             handled |-> 0, lastMsg |-> [id |-> "none", error |-> FALSE]]

IdleWorker == worker = NoWorker

\* thread: "alive" or "exited"; listeners: the worker's event listeners are attached
NoManager == [promise |-> "none", ok |-> FALSE, reason |-> "none", thread |-> "none",
              listeners |-> FALSE, hasRunSubagent |-> FALSE]

IdleManager == manager = NoManager

\* spawned lists the run ids of the registerSpawn calls that returned
NoRegistry == [runs |-> <<>>, totalSpawns |-> 0, calls |-> 0, spawned |-> <<>>,
               last |-> [op |-> "none", runId |-> <<>>, threw |-> FALSE]]

IdleRegistry == registry = NoRegistry

\* strictMode: config.strictMode, "undefined" when not given; autoStrict and
\* capabilities: adapter.getRuntimeInfo(); envSecret: CONFUCIUS_SUPERVISOR_SECRET set;
\* config: the maxDepth and maxSpawns the caller passed, given FALSE when it passed none
NoConfucius == [pc |-> "none", strictMode |-> "undefined", autoStrict |-> FALSE,
                config |-> [given |-> FALSE, maxDepth |-> 0, maxSpawns |-> 0],
                capabilities |-> {}, envSecret |-> FALSE, constructed |-> FALSE,
                preflightTrace |-> <<>>, ok |-> FALSE, reason |-> "undefined",
                preflight |-> "none", hadPlan |-> FALSE, hadSpawn |-> FALSE,
                hadQualityGate |-> FALSE, trace |-> <<>>]

IdleConfucius == confucius = NoConfucius

\* refs: the exported array, each element the position in events of the event object
\* it refers to; snapshot: the events as they were when export() was called
NoExported == [pc |-> "none", refs |-> <<>>, snapshot |-> <<>>, arrayMutated |-> FALSE,
               eventMutated |-> FALSE]

IdleExported == exported = NoExported

\* env: the value of CONFUCIUS_SUPERVISOR_SECRET, a string of `valid` characters of the
\* base64 alphabet and `junk` other characters, or unset; result: the Buffer returned
NoSecretLoad == [pc |-> "none", env |-> [set |-> FALSE, valid |-> 0, junk |-> 0],
                 result |-> [source |-> "none", bytes |-> 0]]

IdleSecretLoad == secretLoad = NoSecretLoad

\* msg: the requestSpawn message the worker posted; params: the argument of the
\* runSubagent call made for it; executions: run, attempt and prompt of every
\* runSubagent call; tightenCalls: the calls of tightenPromptFn
NoHost == [pc |-> "idle",
           msg |-> [agentName |-> "none", prompt |-> <<>>, input |-> NoInput],
           params |-> [description |-> "none", prompt |-> <<>>],
           executions |-> <<>>, tightenCalls |-> <<>>]

IdleHost == host = NoHost

\* none of the library functions is being called on its own
IdleLib == IdleDetector /\ IdleRetry /\ IdleWorker /\ IdleManager /\ IdleRegistry /\ IdleConfucius /\ IdleExported /\ IdleSecretLoad /\ IdleHost

InitOrchestrator ==
  /\ secret = "k1"
  /\ runs = << >>
  /\ totalSpawns = 0
  /\ events = << >>
  /\ eventSeq = 0
  /\ runtimeMode = "null"
  /\ depth3ProofsVerified = << >>
  /\ now = 0
  /\ call = IdleCall
  /\ hist = << >>
  /\ tampered = NoTamper

Init ==
  /\ InitOrchestrator
  /\ \/ /\ prog = InitProg("start")
        /\ cfg \in {Config(lim, env) : lim \in ProofLimits, env \in Hosts}
     \/ /\ prog = InitProg("free")
        /\ cfg \in {Config(lim, env) : lim \in FreeLimits, env \in Hosts}
  /\ cli = NoCli
  /\ artifact = NoArtifact
  /\ guard = NoGuard
  /\ IdleLib

Next ==
  \/ SpawnDepth1 \/ AfterDepth1 \/ SpawnDepth2 \/ AfterDepth2 \/ SpawnDepth3
  \/ AfterDepth3 \/ Merge \/ Rejects
  \/ Attempt \/ HostReply \/ HostFails
  \/ FreeSpawn \/ FreeReturn
  \/ Tick

Spec == Init /\ [][Next]_vars

----------------------------------------------------------------------------
(* A forged trace: one signed field of one exported event is replaced, the
   signature is kept, and the forged trace is validated against the registry *)

SignedFields == {"eventId", "ts", "kind", "depth", "agentName", "parentRunId",
                 "childRunId", "inputHash", "outputHash", "note"}

\* values different from the one the event holds
TamperValues(ev, field) ==
  CASE field = "eventId" -> {ev.eventId + 1}
    [] field = "ts" -> {ev.ts + 1}
    [] field = "depth" -> {ev.depth + 1}
    [] field = "kind" -> {"spawn", "return"} \ {ev.kind}
    [] field = "agentName" -> {"intruder"}
    [] OTHER -> {NULL, EMPTY, UNDEFINED, <<"forged">>} \ {ev[field]}

\* the exported events are copied with one field replaced, then validateTrace runs
Tamper ==
  /\ prog.pc = "done" /\ ~tampered.done
  /\ \E k \in 1..Len(prog.result.trace) :
       \E field \in SignedFields :
         \E v \in TamperValues(prog.result.trace[k], field) :
            LET tr == [prog.result.trace EXCEPT ![k] = [@ EXCEPT ![field] = v]]
            IN tampered' = [done |-> TRUE, k |-> k, field |-> field, trace |-> tr,
                            validation |-> validateTrace(secret, tr, runs)]
  /\ UNCHANGED <<cfg, secret, now, hist, cli, artifact, guard, libVars, call, prog, orchVars>>

\* no spawn adapter and no globalThis.runSubagent: simulation, or strict refusal
StandaloneHosts == {<<FALSE, FALSE, FALSE>>, <<FALSE, FALSE, TRUE>>}

InitTamper ==
  /\ InitOrchestrator
  /\ prog = InitProg("start")
  /\ cfg \in {Config(lim, env) : lim \in ProofLimits, env \in StandaloneHosts}
  /\ cli = NoCli
  /\ artifact = NoArtifact
  /\ guard = NoGuard
  /\ IdleLib

NextTamper ==
  \/ SpawnDepth1 \/ AfterDepth1 \/ SpawnDepth2 \/ AfterDepth2 \/ SpawnDepth3
  \/ AfterDepth3 \/ Merge \/ Rejects
  \/ Attempt
  \/ Tick
  \/ Tamper

SpecTamper == InitTamper /\ [][NextTamper]_vars

----------------------------------------------------------------------------
(* A trace whose signature of one event is missing or malformed *)

\* supervisorSig missing, not hex, hex of another length, hex of the right length
SigTamperValues == {UNDEFINED, <<"not hex">>, <<"abcd">>, <<"hmac", "forged">>}

\* the exported events are copied with the signature of one event replaced, then
\* validateTrace runs
ForgeSignature ==
  /\ prog.pc = "done" /\ ~tampered.done
  /\ \E k \in 1..Len(prog.result.trace) :
       \E v \in SigTamperValues :
          LET tr == [prog.result.trace EXCEPT ![k] = [@ EXCEPT !.supervisorSig = v]]
          IN tampered' = [done |-> TRUE, k |-> k, field |-> "supervisorSig", trace |-> tr,
                          validation |-> validateTrace(secret, tr, runs)]
  /\ UNCHANGED <<cfg, secret, now, hist, cli, artifact, guard, libVars, call, prog, orchVars>>

NextForgedSig ==
  \/ SpawnDepth1 \/ AfterDepth1 \/ SpawnDepth2 \/ AfterDepth2 \/ SpawnDepth3
  \/ AfterDepth3 \/ Merge \/ Rejects
  \/ Attempt
  \/ Tick
  \/ ForgeSignature

SpecForgedSig == InitTamper /\ [][NextForgedSig]_vars

----------------------------------------------------------------------------
(* asleep-detector and cli-worker main *)

hasAnyKind(trace, kinds) == \E k \in 1..Len(trace) : trace[k].kind \in kinds

\* asleepDetector(result, strictMode).ok
asleepDetector(result, strictMode) ==
  LET trace == result.trace
      verificationOk == result.verification.allSignaturesValid
      mode == IF result.runtimeMode = "null" THEN "unknown" ELSE result.runtimeMode
      hasPreflightOk == hasAnyKind(trace, {"preflight_ok"})
      hasPlanCreated == hasAnyKind(trace, {"plan_created"})
      hasSpawnOrRequest == hasAnyKind(trace, {"spawn", "spawn_request_detected",
                                              "supervisor_spawn"})
      hasQualityGatePass == hasAnyKind(trace, {"quality_gate_pass"})
  IN IF strictMode
       THEN /\ hasPreflightOk /\ hasPlanCreated /\ hasSpawnOrRequest
            /\ verificationOk /\ mode = "real"
       ELSE /\ Len(trace) > 0
            /\ \/ hasSpawnOrRequest
               \/ hasAnyKind(trace, {"merge", "return"})
               \/ hasQualityGatePass

\* asleepDetector(result, strictMode).engagement
engagementOf(result) ==
  [hasPreflightOk |-> hasAnyKind(result.trace, {"preflight_ok"}),
   hasPlanCreated |-> hasAnyKind(result.trace, {"plan_created"}),
   hasProofVerified |-> result.verification.allSignaturesValid /\ Len(result.trace) > 0,
   hasSpawnOrRequest |-> hasAnyKind(result.trace, {"spawn", "spawn_request_detected",
                                                   "supervisor_spawn"}),
   hasQualityGatePass |-> hasAnyKind(result.trace, {"quality_gate_pass"})]

JBool(b) == IF b THEN "true" ELSE "false"

\* a file whose ok is the proof's ok alone
ArtifactOfProofOnly(ok, mode, workerMode, result) ==
  [exists |-> TRUE, content |-> "object", ok |-> JBool(result.ok),
   strictMode |-> cli.strictMode, forceSleep |-> cli.forceSleep,
   workerMode |-> workerMode, runtimeMode |-> mode,
   engagement |-> engagementOf(result), stamp |-> "timestampMs", timestampMs |-> now]

\* the file writeProofArtifact writes from the output record
ArtifactOf(ok, mode, workerMode, result) ==
  [exists |-> TRUE, content |-> "object", ok |-> JBool(ok),
   strictMode |-> cli.strictMode, forceSleep |-> cli.forceSleep,
   workerMode |-> workerMode, runtimeMode |-> mode,
   engagement |-> engagementOf(result), stamp |-> "timestampMs", timestampMs |-> now]

Exit(code) == cli' = [cli EXCEPT !.pc = "exited", !.exitCode = code]

\* writeProofArtifact, whose failure to write is swallowed, then process.exit(code)
WriteAndExit(code, file) ==
  \E wrote \in BOOLEAN :
    /\ cli' = [cli EXCEPT !.pc = "exited", !.exitCode = code, !.wrote = wrote]
    /\ artifact' = IF wrote THEN file ELSE artifact

\* main up to its first await: adapter detection, the worker gate, the start of the
\* fallback orchestrator or of the worker (which may fail to start)
CliMain ==
  /\ cli.pc = "main"
  /\ IF ~cli.hasRunSubagent
       THEN IF cli.strictMode
              THEN Exit(2) /\ UNCHANGED prog
              ELSE /\ cli' = [cli EXCEPT !.pc = "fallback"]
                   /\ prog' = InitProg("start")
       ELSE \/ /\ cli' = [cli EXCEPT !.pc = "worker"]
               /\ prog' = InitProg("start")
            \/ Exit(2) /\ UNCHANGED prog
  /\ UNCHANGED <<cfg, secret, now, hist, tampered, artifact, guard, libVars, call, orchVars>>

\* the non-worker branch after runDepth3Proof resolved
CliFallbackDone ==
  /\ cli.pc = "fallback" /\ prog.pc = "done"
  /\ LET proofOk == prog.result.ok
         contractOk == asleepDetector(prog.result, cli.strictMode) /\ ~cli.forceSleep
     IN WriteAndExit(IF cli.forceSleep THEN 5
                     ELSE IF ~contractOk THEN 5
                     ELSE IF ~proofOk THEN 1 ELSE 0,
                     ArtifactOf(contractOk /\ proofOk, "simulated", FALSE, prog.result))
  /\ UNCHANGED <<cfg, secret, now, hist, tampered, guard, libVars, call, prog, orchVars>>

\* the reason runWithWorker resolves with: worker_error from the worker's error event
\* or from a rejection caught in the worker, message_handler_error when the host call
\* fails in the manager's message handler
WorkerFailReasons(pc) ==
  IF pc = "start" THEN {"worker_error"} ELSE {"worker_error", "message_handler_error"}

\* runWithWorker resolved with ok=false: the worker raised an error event, or
\* runDepth3Proof rejected in the worker, or the host call failed; process.exit
\* ends the worker thread with the process
CliWorkerFailed ==
  /\ cli.pc = "worker" /\ prog.pc \in {"start", "crashed"} /\ call.phase = "idle"
  /\ \E reason \in WorkerFailReasons(prog.pc) :
       cli' = [cli EXCEPT !.pc = "exited", !.exitCode = 2, !.reason = reason]
  /\ prog' = [prog EXCEPT !.pc = "terminated"]
  /\ UNCHANGED <<cfg, secret, now, hist, tampered, artifact, guard, libVars, call, orchVars>>

WorkerExitCodeStrictUnchecked(forceSleep, strictMode, outMode, contractOk, proofOk) ==
  IF forceSleep THEN 5
  ELSE IF ~contractOk THEN 5
  ELSE IF ~proofOk THEN 1 ELSE 0

\* the exit logic of main after the artifact is written
WorkerExitCode(forceSleep, strictMode, outMode, contractOk, proofOk) ==
  IF forceSleep THEN 5
  ELSE IF strictMode /\ outMode # "real" THEN 2
  ELSE IF ~contractOk THEN 5
  ELSE IF ~proofOk THEN 1 ELSE 0

\* runWithWorker resolved with the worker's result
CliWorkerDone ==
  /\ cli.pc = "worker" /\ prog.pc = "done"
  /\ LET workerResult == prog.result
         proofOk == workerResult.ok
         contractOk == asleepDetector(workerResult, cli.strictMode) /\ ~cli.forceSleep
         outMode == IF workerResult.runtimeMode = "null" THEN "unknown"
                    ELSE workerResult.runtimeMode
     IN WriteAndExit(WorkerExitCode(cli.forceSleep, cli.strictMode, outMode,
                                    contractOk, proofOk),
                     ArtifactOf(contractOk /\ proofOk, outMode, TRUE, workerResult))
  /\ UNCHANGED <<cfg, secret, now, hist, tampered, guard, libVars, call, prog, orchVars>>

\* the process environment: CONFUCIUS_STRICT_MODE, CONFUCIUS_FORCE_SLEEP, and
\* whether globalThis.runSubagent is defined
InitCli ==
  /\ InitOrchestrator
  /\ \E strictMode \in BOOLEAN, forceSleep \in BOOLEAN, hasRunSubagent \in BOOLEAN :
       /\ cli = [pc |-> "main", strictMode |-> strictMode, forceSleep |-> forceSleep,
                 hasRunSubagent |-> hasRunSubagent, exitCode |-> 0, wrote |-> FALSE,
                 reason |-> "none"]
       /\ cfg = Config(<<DefaultMaxDepth, DefaultMaxSpawns>>,
                       <<hasRunSubagent, FALSE, strictMode>>)
  /\ prog = InitProg("cli")
  /\ artifact = NoArtifact
  /\ guard = NoGuard
  /\ IdleLib

NextCli ==
  \/ CliMain \/ CliFallbackDone \/ CliWorkerFailed \/ CliWorkerDone
  \/ SpawnDepth1 \/ AfterDepth1 \/ SpawnDepth2 \/ AfterDepth2 \/ SpawnDepth3
  \/ AfterDepth3 \/ Merge \/ Rejects
  \/ Attempt \/ HostReply \/ HostFails
  \/ Tick

SpecCli == InitCli /\ [][NextCli]_vars

----------------------------------------------------------------------------
(* guard-agentic: the guard process reading the proof artifact *)

Truthy(v) == v \in {"true", "1"}

AgeLimitMs(maxAgeMin) == maxAgeMin * 60 * 1000

RequiredEngagement == {"hasPreflightOk", "hasPlanCreated", "hasSpawnOrRequest",
                       "hasProofVerified"}

\* guardAgenticWork: the exit code of the guard process.  Reading a property of the
\* parsed value null raises a TypeError nothing catches: the process ends with code 1
guardAgenticWork(file, agenticEnv, maxAgeMin, nowMs) ==
  IF ~file.exists THEN 5
  ELSE IF file.content = "invalid" THEN 5
  ELSE IF file.content = "null" THEN 1
  ELSE IF file.stamp \in {"badTimestamp", "none"} THEN 5
  ELSE IF nowMs - file.timestampMs > AgeLimitMs(maxAgeMin) THEN 5
  ELSE IF ~Truthy(file.ok) THEN 5
  ELSE IF file.strictMode \/ agenticEnv
    THEN IF file.runtimeMode # "real" THEN 5
         ELSE IF \E flag \in RequiredEngagement : ~file.engagement[flag] THEN 5
         ELSE 0
  ELSE 0

GuardRun ==
  /\ guard.pc = "start"
  /\ guard' = [guard EXCEPT !.pc = "exited",
                            !.exitCode = guardAgenticWork(artifact, guard.agenticEnv,
                                                          guard.maxAgeMin, guard.now)]
  /\ UNCHANGED <<cfg, secret, now, hist, tampered, cli, artifact, libVars, call, prog,
                 orchVars>>

\* engagement records found in artifacts: full, without hasPlanCreated, empty
EngagementChoices ==
  {[NoEngagement EXCEPT !.hasPreflightOk = TRUE, !.hasPlanCreated = TRUE,
                        !.hasProofVerified = TRUE, !.hasSpawnOrRequest = TRUE],
   [NoEngagement EXCEPT !.hasPreflightOk = TRUE, !.hasProofVerified = TRUE,
                        !.hasSpawnOrRequest = TRUE],
   NoEngagement}

\* times of writing and of guarding, in milliseconds, around one and two minutes
ArtifactTimes == {0, 1, 60000, 60001, 120000}
GuardTimes == {120000, 120001}
MaxAgeChoices == {1, 2}

\* the files the guard can find
ArtifactChoices ==
  {NoArtifact}
    \cup {[NoArtifact EXCEPT !.exists = TRUE, !.content = c] : c \in {"invalid", "null"}}
    \cup {[NoArtifact EXCEPT !.exists = TRUE, !.ok = ok, !.strictMode = strict,
                             !.runtimeMode = mode, !.engagement = e, !.stamp = st,
                             !.timestampMs = t] :
            ok \in {"true", "false", "1", "undefined"}, strict \in BOOLEAN,
            mode \in {"real", "simulated", "unknown"}, e \in EngagementChoices,
            st \in {"timestampMs", "timestamp", "badTimestamp", "writtenAtMs", "none"},
            t \in ArtifactTimes}

InitGuard ==
  /\ InitOrchestrator
  /\ cfg = Config(<<DefaultMaxDepth, DefaultMaxSpawns>>, <<FALSE, FALSE, FALSE>>)
  /\ prog = InitProg("cli")
  /\ cli = NoCli
  /\ artifact \in ArtifactChoices
  /\ guard \in [pc : {"start"}, agenticEnv : BOOLEAN, maxAgeMin : MaxAgeChoices,
                exitCode : {0}, now : GuardTimes]
  /\ IdleLib

NextGuard == GuardRun

SpecGuard == InitGuard /\ [][NextGuard]_vars

----------------------------------------------------------------------------
(* Library functions called on their own: the rest of the program stands still *)

InitIdleProgram ==
  /\ InitOrchestrator
  /\ cfg = Config(<<DefaultMaxDepth, DefaultMaxSpawns>>, <<FALSE, FALSE, FALSE>>)
  /\ prog = InitProg("cli")
  /\ cli = NoCli
  /\ artifact = NoArtifact
  /\ guard = NoGuard

progVars == <<cfg, secret, now, call, prog, hist, tampered, cli, artifact, guard, orchVars>>

----------------------------------------------------------------------------
(* asleepDetector on any result *)

MaxTraceLen == 3

\* the kinds a trace handed to asleepDetector can hold: those it looks for, and one
\* it does not
DetectorKinds == {"preflight_ok", "plan_created", "spawn", "spawn_request_detected",
                  "supervisor_spawn", "merge", "return", "quality_gate_pass", "limit"}

KindTraces(n) == UNION {[1..m -> [kind : DetectorKinds]] : m \in 0..n}

\* result as asleepDetector reads it: trace, verification.allSignaturesValid, runtimeMode
DetectorResult(d) ==
  [NoResult EXCEPT !.trace = d.trace, !.runtimeMode = d.runtimeMode,
                   !.verification = [NoVerification EXCEPT
                                       !.allSignaturesValid = d.allSignaturesValid]]

DetectorCall ==
  /\ detector.pc = "start"
  /\ detector' = [detector EXCEPT
                    !.pc = "returned",
                    !.contractSatisfied = asleepDetector(DetectorResult(detector),
                                                         detector.strictMode),
                    !.engagement = engagementOf(DetectorResult(detector))]
  /\ UNCHANGED <<progVars, retry, worker, manager, registry, confucius, exported, secretLoad, host>>

InitDetector ==
  /\ InitIdleProgram
  /\ IdleExported /\ IdleSecretLoad /\ IdleHost
  /\ IdleConfucius
  /\ IdleRegistry
  /\ IdleManager
  /\ IdleWorker
  /\ IdleRetry
  /\ detector \in [pc : {"start"}, trace : KindTraces(MaxTraceLen),
                    allSignaturesValid : BOOLEAN,
                    runtimeMode : {"null", "real", "simulated"}, strictMode : BOOLEAN,
                    contractSatisfied : {FALSE}, engagement : {NoEngagement}]

NextDetector == DetectorCall

SpecDetector == InitDetector /\ [][NextDetector]_vars

----------------------------------------------------------------------------
(* runWithRetry with any attemptFn and gateFn *)

MaxRetryAttempts == 3

\* what attemptFn can resolve with
RetryResults == {"r1", "r2", "r3"}

\* one pass through the loop body: attemptFn({attempt}) resolves with res, gateFn
\* (which passes the results in retry.passing) judges it
RetryAttempt ==
  /\ retry.pc = "loop" /\ RetryLoopGuard(retry.attempt, retry.maxAttempts)
  /\ \E res \in RetryResults :
       LET r1 == [retry EXCEPT !.called = Append(@, retry.attempt),
                               !.results = Append(@, res), !.last = res]
       IN retry' = IF res \in retry.passing
                     THEN [r1 EXCEPT !.pc = "returned",
                                     !.ret = [@ EXCEPT !.ok = TRUE,
                                                       !.attempts = retry.attempt,
                                                       !.result = res]]
                     ELSE [r1 EXCEPT !.attempt = @ + 1]
  /\ UNCHANGED <<progVars, detector, worker, manager, registry, confucius, exported, secretLoad, host>>

\* the loop is over: the failure object
RetryExhausted ==
  /\ retry.pc = "loop" /\ ~RetryLoopGuard(retry.attempt, retry.maxAttempts)
  /\ retry' = [retry EXCEPT !.pc = "returned",
                            !.ret = [@ EXCEPT !.ok = FALSE,
                                              !.attempts = retry.maxAttempts,
                                              !.lastResult = retry.last,
                                              !.reason = "quality_gate_failed_all_attempts"]]
  /\ UNCHANGED <<progVars, detector, worker, manager, registry, confucius, exported, secretLoad, host>>

InitRetry ==
  /\ InitIdleProgram
  /\ IdleExported /\ IdleSecretLoad /\ IdleHost
  /\ IdleConfucius
  /\ IdleRegistry
  /\ IdleManager
  /\ IdleWorker
  /\ IdleDetector
  /\ retry \in {[NoRetry EXCEPT !.pc = "loop", !.maxAttempts = n, !.passing = ps,
                                !.attempt = 1] :
                   n \in 0..MaxRetryAttempts, ps \in SUBSET RetryResults}

NextRetry == RetryAttempt \/ RetryExhausted

SpecRetry == InitRetry /\ [][NextRetry]_vars

----------------------------------------------------------------------------
(* The worker thread: createWorkerSpawnAdapter and the modelResult handler *)

MaxRequests == 3
MaxMessages == 4

\* what mintRequestId can return (random: a value may come back)
RequestIds == {"id1", "id2", "id3"}

\* pendingRequests.set(id, {resolve, reject})
setPending(pending, id, req) ==
  [i \in DOMAIN pending \cup {id} |-> IF i = id THEN req ELSE pending[i]]

\* a delete that leaves the entry in the map
keepPending(pending, id) == pending

\* pendingRequests.delete(id)
deletePending(pending, id) == [i \in DOMAIN pending \ {id} |-> pending[i]]

\* the orchestrator in the worker calls the spawn adapter: requestSpawn is posted
\* and the returned promise waits in pendingRequests
WorkerRequestSpawn ==
  /\ worker.pc = "running" /\ Len(worker.reqs) < MaxRequests
  /\ manager.thread # "exited"
  /\ \E id \in RequestIds :
       worker' = [worker EXCEPT
                    !.pc = "awaiting",
                    !.reqs = Append(@, [id |-> id, state |-> "pending"]),
                    !.pendingRequests = setPending(@, id, Len(worker.reqs) + 1)]
  /\ UNCHANGED <<progVars, detector, retry, manager, registry, confucius, exported, secretLoad, host>>

\* runDepth3Proof has returned: done is posted
WorkerDone ==
  /\ worker.pc = "running" /\ manager.thread # "exited"
  /\ worker' = [worker EXCEPT !.pc = "done"]
  /\ UNCHANGED <<progVars, detector, retry, manager, registry, confucius, exported, secretLoad, host>>

\* the message handler on a modelResult with this id, with or without error.  A
\* rejected request makes runDepth3Proof throw, and the handler of runTask posts fail
WorkerHandles(id, error) ==
  /\ worker.pc # "none" /\ worker.handled < MaxMessages
  /\ manager.thread # "exited"
  /\ LET w == [worker EXCEPT !.handled = @ + 1,
                             !.lastMsg = [id |-> id, error |-> error]]
     IN IF id \in DOMAIN worker.pendingRequests
          THEN LET req == worker.pendingRequests[id]
                   awaited == worker.pc = "awaiting" /\ req = Len(worker.reqs)
               IN worker' =
                    [w EXCEPT
                       !.pendingRequests = deletePending(@, id),
                       !.reqs[req].state = IF error THEN "rejected" ELSE "resolved",
                       !.settles = Append(@, [req |-> req, id |-> id, error |-> error]),
                       !.pc = IF ~awaited THEN @
                              ELSE IF error THEN "failed" ELSE "running"]
          ELSE worker' = w
  /\ UNCHANGED <<progVars, detector, retry, manager, registry, confucius, exported, secretLoad, host>>

\* a modelResult message arrives, whatever its id
WorkerModelResult == \E id \in RequestIds, error \in BOOLEAN : WorkerHandles(id, error)

InitWorker ==
  /\ InitIdleProgram
  /\ IdleExported /\ IdleSecretLoad /\ IdleHost
  /\ IdleConfucius
  /\ IdleRegistry
  /\ IdleManager
  /\ IdleDetector /\ IdleRetry
  /\ worker = [NoWorker EXCEPT !.pc = "running"]

NextWorker == WorkerRequestSpawn \/ WorkerDone \/ WorkerModelResult

SpecWorker == InitWorker /\ [][NextWorker]_vars

----------------------------------------------------------------------------
(* runWithWorker: the main thread beside the worker thread *)

Resolve(ok, reason) ==
  [manager EXCEPT !.promise = "resolved", !.ok = ok, !.reason = reason,
                  !.listeners = FALSE, !.thread = "exited"]

\* worker.on('message') for requestSpawn: no runSubagent fails the run, otherwise
\* runSubagent is awaited and either its text goes back as modelResult under the
\* id of the request, or its rejection is caught
ManagerOnRequestSpawn ==
  /\ manager.listeners /\ manager.thread = "alive"
  /\ worker.pc = "awaiting" /\ worker.reqs[Len(worker.reqs)].state = "pending"
  /\ IF ~manager.hasRunSubagent
       THEN /\ manager' = Resolve(FALSE, "tool_missing")
            /\ UNCHANGED <<progVars, detector, retry, worker, registry, confucius, exported, secretLoad, host>>
       ELSE \/ WorkerHandles(worker.reqs[Len(worker.reqs)].id, FALSE)
            \/ /\ manager' = Resolve(FALSE, "message_handler_error")
               /\ UNCHANGED <<progVars, detector, retry, worker, registry, confucius, exported, secretLoad, host>>

\* worker.on('message') for done and fail
ManagerOnDoneOrFail ==
  /\ manager.listeners /\ worker.pc \in {"done", "failed"}
  /\ manager' = IF worker.pc = "done" THEN Resolve(TRUE, "none")
                ELSE Resolve(FALSE, "worker_error")
  /\ UNCHANGED <<progVars, detector, retry, worker, registry, confucius, exported, secretLoad, host>>

\* an uncaught exception in the worker thread: worker.on('error'), then the thread
\* is gone
ManagerOnError ==
  /\ manager.listeners /\ manager.thread = "alive"
  /\ worker.pc \in {"running", "awaiting"}
  /\ manager' = Resolve(FALSE, "worker_error")
  /\ UNCHANGED <<progVars, detector, retry, worker, registry, confucius, exported, secretLoad, host>>

\* the worker thread is terminated or exits (process.exit in the thread) before it
\* has posted done or fail: worker.on('exit') logs the code
ManagerOnExit ==
  /\ manager.thread = "alive" /\ worker.pc \in {"running", "awaiting"}
  /\ manager' = [manager EXCEPT !.thread = "exited"]
  /\ UNCHANGED <<progVars, detector, retry, worker, registry, confucius, exported, secretLoad, host>>

InitManager ==
  /\ InitIdleProgram
  /\ IdleExported /\ IdleSecretLoad /\ IdleHost
  /\ IdleConfucius
  /\ IdleRegistry
  /\ IdleDetector /\ IdleRetry
  /\ worker = [NoWorker EXCEPT !.pc = "running"]
  /\ manager \in {[NoManager EXCEPT !.promise = "pending", !.thread = "alive",
                                    !.listeners = TRUE, !.hasRunSubagent = h] :
                     h \in BOOLEAN}

NextManager ==
  \/ WorkerRequestSpawn \/ WorkerDone
  \/ ManagerOnRequestSpawn \/ ManagerOnDoneOrFail \/ ManagerOnError \/ ManagerOnExit

\* the handlers of the main thread run when their event is there
SpecManager ==
  /\ InitManager /\ [][NextManager]_vars
  /\ WF_vars(ManagerOnRequestSpawn) /\ WF_vars(ManagerOnDoneOrFail)
  /\ WF_vars(WorkerRequestSpawn \/ WorkerDone)

----------------------------------------------------------------------------
(* SupervisorRunRegistry called directly *)

MaxRegistryCalls == 4

RegistryRunIds == {RunIdOf("depth1_orchestrator", 0, 0), RunIdOf("depth2_worker_a", 0, 1),
                   RunIdOf("depth2_worker_a", 0, 2)}

RegistryHashes == {<<"sha256", "x">>, <<"sha256", "y">>}

Called(op, runId, threw) ==
  [registry EXCEPT !.calls = @ + 1, !.last = [op |-> op, runId |-> runId, threw |-> threw]]

\* registerSpawn({runId, parentRunId, agentName, depth, inputHash, nonce})
RegistryRegisterSpawn ==
  /\ registry.calls < MaxRegistryCalls
  /\ \E runId \in RegistryRunIds, depth \in {1, 2}, inputHash \in RegistryHashes :
       registry' =
         IF hasRun(registry.runs, runId)
           THEN Called("registerSpawn", runId, TRUE)
           ELSE [Called("registerSpawn", runId, FALSE) EXCEPT
                   !.totalSpawns = @ + 1,
                   !.runs = registerSpawnRuns(@, RunRecord(runId, NULL, runId[1], depth,
                                                           inputHash, NULL, now)),
                   !.spawned = Append(@, runId)]
  /\ UNCHANGED <<progVars, detector, retry, worker, manager, confucius, exported, secretLoad, host>>

\* registerReturn({runId, outputHash})
RegistryRegisterReturn ==
  /\ registry.calls < MaxRegistryCalls
  /\ \E runId \in RegistryRunIds, outputHash \in RegistryHashes :
       registry' =
         IF ~hasRun(registry.runs, runId)
           THEN Called("registerReturn", runId, TRUE)
           ELSE [Called("registerReturn", runId, FALSE) EXCEPT
                   !.runs = registerReturnRuns(@, runId, outputHash, now)]
  /\ UNCHANGED <<progVars, detector, retry, worker, manager, confucius, exported, secretLoad, host>>

InitRegistry ==
  /\ InitIdleProgram
  /\ IdleExported /\ IdleSecretLoad /\ IdleHost
  /\ IdleConfucius
  /\ IdleDetector /\ IdleRetry /\ IdleWorker /\ IdleManager /\ IdleConfucius
  /\ IdleExported /\ IdleSecretLoad /\ IdleHost
  /\ registry = NoRegistry

NextRegistry == RegistryRegisterSpawn \/ RegistryRegisterReturn

SpecRegistry == InitRegistry /\ [][NextRegistry]_vars

----------------------------------------------------------------------------
(* runWithConfucius: preflight, then runDepth3Proof of a new orchestrator *)

\* a preflight that looks at the adapter's auto-detected strictMode only
autoStrictOnly(explicitStrict, autoStrict) == autoStrict

\* explicitStrict !== undefined ? explicitStrict : runtime.strictMode
effectiveStrict(explicitStrict, autoStrict) ==
  IF explicitStrict # "undefined" THEN explicitStrict = "true" ELSE autoStrict

\* config?.maxDepth || 4, config?.maxSpawns || 10
OrDefault(v, default) == IF v = 0 THEN default ELSE v

PreflightEvent(kind, note) == [kind |-> kind, note |-> note]

\* what runWithConfucius keeps of a signed event when it joins the two traces
KindNote(ev) == [kind |-> ev.kind, note |-> ev.note]

KindNotes(tr) == [k \in 1..Len(tr) |-> KindNote(tr[k])]

\* preflightOrFail(adapter, config?.strictMode)
preflightOrFail(c) ==
  LET strict == effectiveStrict(c.strictMode, c.autoStrict)
      start == <<PreflightEvent("preflight_start", NULL)>>
  IN IF strict /\ "runSubagent" \notin c.capabilities
       THEN [ok |-> FALSE, reason |-> "tool_missing_strict", strictMode |-> strict,
             trace |-> Append(start, PreflightEvent("preflight_fail",
                                                    <<"tool_missing_strict">>))]
       ELSE [ok |-> TRUE, reason |-> "undefined", strictMode |-> strict,
             trace |-> (IF c.envSecret THEN start
                        ELSE Append(start, PreflightEvent("preflight_warning",
                                                          <<"ephemeral_secret_generated">>)))
                       \o <<PreflightEvent("preflight_ok", NULL)>>]

\* runWithConfucius up to the call of runDepth3Proof
ConfuciusPreflight ==
  /\ confucius.pc = "start"
  /\ LET preflight == preflightOrFail(confucius)
     IN IF ~preflight.ok
          THEN /\ confucius' = [confucius EXCEPT
                                  !.pc = "returned", !.ok = FALSE,
                                  !.reason = preflight.reason, !.preflight = "failed",
                                  !.preflightTrace = preflight.trace,
                                  !.trace = preflight.trace]
               /\ UNCHANGED prog
          ELSE /\ confucius' = [confucius EXCEPT !.pc = "running", !.constructed = TRUE,
                                                 !.preflightTrace = preflight.trace]
               /\ prog' = InitProg("start")
  /\ UNCHANGED <<cfg, secret, now, call, hist, tampered, cli, artifact, guard, orchVars,
                 detector, retry, worker, manager, registry, exported, secretLoad, host>>

detectEngagement(trace) ==
  [hadPlan |-> hasAnyKind(trace, {"plan"}),
   hadSpawn |-> hasAnyKind(trace, {"spawn", "spawn_request"}),
   hadQualityGate |-> hasAnyKind(trace, {"quality_gate", "quality_gate_pass"})]

\* runWithConfucius after runDepth3Proof has resolved or rejected
ConfuciusFinish ==
  /\ confucius.pc = "running" /\ prog.pc \in {"done", "crashed"}
  /\ LET fullTrace == confucius.preflightTrace \o KindNotes(prog.result.trace)
         engagement == detectEngagement(fullTrace)
         engaged == engagement.hadPlan \/ engagement.hadSpawn \/ engagement.hadQualityGate
         c == [confucius EXCEPT !.pc = "returned", !.preflight = "ok"]
     IN confucius' =
          IF prog.pc = "crashed"
            THEN [c EXCEPT !.ok = FALSE, !.reason = "error.message",
                           !.trace = Append(confucius.preflightTrace,
                                            PreflightEvent("error", NULL))]
          ELSE IF ~engaged
            THEN [c EXCEPT !.ok = FALSE, !.reason = "asleep_detected",
                           !.hadPlan = engagement.hadPlan,
                           !.hadSpawn = engagement.hadSpawn,
                           !.hadQualityGate = engagement.hadQualityGate,
                           !.trace = Append(fullTrace,
                                            PreflightEvent("limit", <<"asleep_detected">>))]
          ELSE [c EXCEPT !.ok = prog.result.ok,
                         !.reason = IF prog.result.ok THEN "undefined"
                                    ELSE prog.result.reason,
                         !.hadPlan = engagement.hadPlan,
                         !.hadSpawn = engagement.hadSpawn,
                         !.hadQualityGate = engagement.hadQualityGate,
                         !.trace = fullTrace]
  /\ UNCHANGED <<progVars, detector, retry, worker, manager, registry, exported, secretLoad, host>>

\* config.maxDepth and config.maxSpawns as given (0: not given, or given as 0)
ConfuciusLimits == {<<0, 0>>, <<4, 2>>, <<0, 5>>, <<4, 0>>}

InitConfucius ==
  /\ InitOrchestrator
  /\ prog = InitProg("cli")
  /\ cli = NoCli /\ artifact = NoArtifact /\ guard = NoGuard
  /\ IdleDetector /\ IdleRetry /\ IdleWorker /\ IdleManager /\ IdleRegistry
  /\ IdleExported /\ IdleSecretLoad /\ IdleHost
  /\ \E strictMode \in {"undefined", "true", "false"}, autoStrict \in BOOLEAN,
        capabilities \in {{}, {"runSubagent"}}, envSecret \in BOOLEAN,
        hasRunSubagent \in BOOLEAN, lim \in ConfuciusLimits, given \in BOOLEAN :
       /\ (~given => lim = <<0, 0>>)
       /\ confucius = [NoConfucius EXCEPT !.pc = "start", !.strictMode = strictMode,
                                          !.config = [given |-> given, maxDepth |-> lim[1],
                                                      maxSpawns |-> lim[2]],
                                          !.autoStrict = autoStrict,
                                          !.capabilities = capabilities,
                                          !.envSecret = envSecret]
       /\ cfg = Config(<<OrDefault(lim[1], DefaultMaxDepth),
                         OrDefault(lim[2], DefaultMaxSpawns)>>,
                       <<FALSE, hasRunSubagent, effectiveStrict(strictMode, autoStrict)>>)

NextConfucius ==
  \/ ConfuciusPreflight \/ ConfuciusFinish
  \/ SpawnDepth1 \/ AfterDepth1 \/ SpawnDepth2 \/ AfterDepth2 \/ SpawnDepth3
  \/ AfterDepth3 \/ Merge \/ Rejects
  \/ Attempt \/ HostReply \/ HostFails

SpecConfucius == InitConfucius /\ [][NextConfucius]_vars

----------------------------------------------------------------------------
(* SignedTrace.export(): the array is new, the event objects in it are the trace's *)

Reverse(sq) == [i \in 1..Len(sq) |-> sq[Len(sq) + 1 - i]]

\* this.events.slice(), as runDepth3Proof and fail put it into the result
ExportTrace ==
  /\ prog.pc = "done" /\ exported.pc = "none"
  /\ exported' = [exported EXCEPT !.pc = "held", !.refs = [k \in 1..Len(events) |-> k],
                                  !.snapshot = events]
  /\ UNCHANGED <<progVars, detector, retry, worker, manager, registry, confucius, secretLoad, host>>

\* the holder changes the array: drops the first element, reverses it, empties it
MutateExportedArray ==
  /\ exported.pc = "held" /\ ~exported.arrayMutated /\ exported.refs # <<>>
  /\ \E refs \in {Tail(exported.refs), Reverse(exported.refs), <<>>} :
       exported' = [exported EXCEPT !.refs = refs, !.arrayMutated = TRUE]
  /\ UNCHANGED <<progVars, detector, retry, worker, manager, registry, confucius, secretLoad, host>>

\* the holder assigns to a field of an element: the element is the event object
\* the trace holds
MutateExportedEvent ==
  /\ exported.pc = "held" /\ ~exported.eventMutated
  /\ \E i \in DOMAIN exported.refs, field \in SignedFields :
       \E v \in TamperValues(events[exported.refs[i]], field) :
         events' = [events EXCEPT ![exported.refs[i]] = [@ EXCEPT ![field] = v]]
  /\ exported' = [exported EXCEPT !.eventMutated = TRUE]
  /\ UNCHANGED <<cfg, secret, now, call, prog, hist, tampered, cli, artifact, guard,
                 runs, totalSpawns, eventSeq, runtimeMode, depth3ProofsVerified,
                 detector, retry, worker, manager, registry, confucius, secretLoad, host>>

InitExport ==
  /\ InitOrchestrator
  /\ prog = InitProg("start")
  /\ cfg \in {Config(lim, <<FALSE, FALSE, FALSE>>) : lim \in {<<4, 5>>, <<4, 2>>}}
  /\ cli = NoCli /\ artifact = NoArtifact /\ guard = NoGuard
  /\ IdleDetector /\ IdleRetry /\ IdleWorker /\ IdleManager /\ IdleRegistry
  /\ IdleConfucius /\ IdleSecretLoad /\ IdleHost
  /\ exported = NoExported

NextExport ==
  \/ SpawnDepth1 \/ AfterDepth1 \/ SpawnDepth2 \/ AfterDepth2 \/ SpawnDepth3
  \/ AfterDepth3 \/ Merge
  \/ Attempt
  \/ ExportTrace \/ MutateExportedArray \/ MutateExportedEvent

SpecExport == InitExport /\ [][NextExport]_vars

----------------------------------------------------------------------------
(* loadSupervisorSecret *)

MaxEnvLen == 44
MaxJunk == 2
RandomBytesLen == 32
MinEnvLength == 32

\* fromEnv.length
EnvLength(env) == env.valid + env.junk

\* Buffer.from(fromEnv, 'base64').length: characters outside the alphabet are
\* skipped, every four characters of the alphabet give three bytes
Base64Bytes(env) == (env.valid * 3) \div 4

loadSupervisorSecret(env) ==
  IF env.set /\ EnvLength(env) > 0 /\ EnvLength(env) >= MinEnvLength
  THEN [source |-> "env", bytes |-> Base64Bytes(env)]
  ELSE [source |-> "random", bytes |-> RandomBytesLen]

LoadSupervisorSecret ==
  /\ secretLoad.pc = "called"
  /\ secretLoad' = [secretLoad EXCEPT !.pc = "returned",
                                      !.result = loadSupervisorSecret(secretLoad.env)]
  /\ UNCHANGED <<progVars, detector, retry, worker, manager, registry, confucius, exported, host>>

InitSecretLoad ==
  /\ InitIdleProgram
  /\ IdleDetector /\ IdleRetry /\ IdleWorker /\ IdleManager /\ IdleRegistry
  /\ IdleConfucius /\ IdleExported /\ IdleHost
  /\ \E set \in BOOLEAN, valid \in 0..MaxEnvLen, junk \in 0..MaxJunk :
       /\ (~set => valid = 0 /\ junk = 0)
       /\ secretLoad = [NoSecretLoad EXCEPT !.pc = "called",
                          !.env = [set |-> set, valid |-> valid, junk |-> junk]]

NextSecretLoad == LoadSupervisorSecret

SpecSecretLoad == InitSecretLoad /\ [][NextSecretLoad]_vars

----------------------------------------------------------------------------
(* What reaches runSubagent: through the worker and its host, and directly *)

\* the prompt runDepth3Proof gives to supervisedSpawn at each depth
PromptOf(depth) ==
  IF depth = 1 THEN <<"Return JSON with spawn_requests for two depth2 workers.">>
  ELSE IF depth = 2 THEN <<"Return JSON and include spawn_request for one depth3 worker.">>
  ELSE <<"Compute cryptographic proof-of-execution.">>

\* agentName.includes('depth3')
NameIncludesDepth3(agentName) ==
  agentName \in {"depth3_micro_a", "depth3_micro_b", "depth3_micro_r"}

\* buildSubagentPrompt: agent, run id and, for an agent named depth3, the nonce and
\* run id of the input; the caller's prompt ends the text of the other agents
buildSubagentPrompt(agentName, in, prompt, runId) ==
  <<"You are", agentName, "Run ID:">> \o runId \o
  (IF NameIncludesDepth3(agentName)
     THEN <<"nonce:">> \o in.nonce \o <<"runId:">> \o in.runId
     ELSE <<"Your task:">> \o prompt)

Execution(prompt) == [runId |-> call.runId, attempt |-> call.attempt, prompt |-> prompt]

\* supervisedSpawn passes tightenPromptFn: null to runWithRetry
tightenPromptFn == NULL

\* runWithRetry after a failed gate: if (attempt < maxAttempts) { if (tightenPromptFn)
\* tightenPromptFn({ attempt, gateErrors }) }
TightenCalls(calls, gate) ==
  IF ~gate.ok /\ call.attempt < maxAttempts /\ ~Falsy(tightenPromptFn)
    THEN Append(calls, [runId |-> call.runId, attempt |-> call.attempt,
                        gateErrors |-> gate.errors])
    ELSE calls

\* createWorkerSpawnAdapter: the requestSpawn message carries agentName, prompt and
\* input
AdapterPostsRequestSpawn ==
  /\ cfg.hasAdapter /\ call.phase = "await" /\ host.pc = "idle"
  /\ host' = [host EXCEPT !.pc = "posted",
                          !.msg = [agentName |-> call.agentName,
                                   prompt |-> PromptOf(call.depth),
                                   input |-> call.input]]
  /\ UNCHANGED <<progVars, detector, retry, worker, manager, registry, confucius,
                 exported, secretLoad>>

\* worker.on('message') for requestSpawn: adapter.runSubagent({description, prompt})
HostOnRequestSpawn ==
  /\ host.pc = "posted"
  /\ host' = [host EXCEPT !.pc = "invoked",
                          !.params = [description |-> host.msg.agentName,
                                      prompt |-> host.msg.prompt],
                          !.executions = Append(@, Execution(host.msg.prompt))]
  /\ UNCHANGED <<progVars, detector, retry, worker, manager, registry, confucius,
                 exported, secretLoad>>

\* simulateSubagentExecution without adapter: globalThis.runSubagent is given the
\* built prompt
DirectRunSubagent ==
  /\ ~cfg.hasAdapter /\ call.phase = "await" /\ host.pc = "idle"
  /\ host' = [host EXCEPT !.pc = "invoked",
                          !.params = [description |-> call.agentName,
                                      prompt |-> buildSubagentPrompt(call.agentName,
                                                   call.input, PromptOf(call.depth),
                                                   call.runId)],
                          !.executions =
                             Append(@, Execution(buildSubagentPrompt(call.agentName,
                                         call.input, PromptOf(call.depth), call.runId)))]
  /\ UNCHANGED <<progVars, detector, retry, worker, manager, registry, confucius,
                 exported, secretLoad>>

\* the subagent answers and its output goes back to attemptFn
SubagentReturns ==
  /\ host.pc = "invoked" /\ call.phase = "await"
  /\ UNCHANGED <<cfg, secret, now, prog, tampered, cli, artifact, guard,
                 detector, retry, worker, manager, registry, confucius, exported,
                 secretLoad>>
  /\ \E out \in HostOutputs(call.agentName, call.depth, call.input, now) :
       /\ AttemptReturns(events, runtimeMode, out)
       /\ host' = [host EXCEPT !.pc = "idle",
                               !.tightenCalls = TightenCalls(@, gateFn(call, out))]

InitHost ==
  /\ InitOrchestrator
  /\ prog = InitProg("start")
  /\ cfg \in {Config(<<4, 5>>, h) : h \in {<<TRUE, FALSE, FALSE>>, <<FALSE, TRUE, TRUE>>}}
  /\ cli = NoCli /\ artifact = NoArtifact /\ guard = NoGuard
  /\ IdleLib

NextHost ==
  \/ SpawnDepth1 \/ AfterDepth1 \/ SpawnDepth2 \/ AfterDepth2 \/ SpawnDepth3
  \/ AfterDepth3 \/ Merge
  \/ Attempt
  \/ AdapterPostsRequestSpawn \/ HostOnRequestSpawn \/ DirectRunSubagent
  \/ SubagentReturns

SpecHost == InitHost /\ [][NextHost]_vars

----------------------------------------------------------------------------
(* An orchestrator whose host defines or removes globalThis.runSubagent while it lives *)

\* <<maxDepth, maxSpawns>>
ToolLimits == {<<4, 5>>, <<4, 2>>}

\* globalThis.runSubagent is assigned or deleted by the host
GlobalRunSubagentChanges ==
  /\ call.phase \in {"idle", "attempt", "done"}
  /\ cfg' = [cfg EXCEPT !.hasRunSubagent = ~@]
  /\ UNCHANGED <<secret, now, call, prog, hist, tampered, cli, artifact, guard, libVars,
                 orchVars>>

InitToolChanges ==
  /\ InitOrchestrator
  /\ \/ /\ prog = InitProg("start")
        /\ cfg \in {Config(lim, env) : lim \in ToolLimits, env \in Hosts}
     \/ /\ prog = InitProg("free")
        /\ cfg \in {Config(lim, env) : lim \in ToolLimits, env \in Hosts}
  /\ cli = NoCli /\ artifact = NoArtifact /\ guard = NoGuard
  /\ IdleLib

NextToolChanges ==
  \/ SpawnDepth1 \/ AfterDepth1 \/ SpawnDepth2 \/ AfterDepth2 \/ SpawnDepth3
  \/ AfterDepth3 \/ Merge \/ Rejects
  \/ Attempt \/ HostReply \/ HostFails
  \/ FreeSpawn \/ FreeReturn
  \/ GlobalRunSubagentChanges

SpecToolChanges == InitToolChanges /\ [][NextToolChanges]_vars

----------------------------------------------------------------------------
(* Engine runs one after the other, then the guard: the artifact file stays on disk
   from one process to the next *)

\* the CLI is started again: a new process with its own environment and a new
\* orchestrator; .confucius/last-proof.json is what the earlier runs left
EngineRunsAgain ==
  /\ cli.pc = "exited" /\ guard.pc = "none"
  /\ \E strictMode \in BOOLEAN, forceSleep \in BOOLEAN, hasRunSubagent \in BOOLEAN :
       /\ cli' = [pc |-> "main", strictMode |-> strictMode, forceSleep |-> forceSleep,
                  hasRunSubagent |-> hasRunSubagent, exitCode |-> 0, wrote |-> FALSE,
                  reason |-> "none"]
       /\ cfg' = Config(<<DefaultMaxDepth, DefaultMaxSpawns>>,
                        <<hasRunSubagent, FALSE, strictMode>>)
  /\ prog' = InitProg("cli")
  /\ runs' = << >> /\ totalSpawns' = 0 /\ events' = << >> /\ eventSeq' = 0
  /\ runtimeMode' = "null" /\ depth3ProofsVerified' = << >>
  /\ call' = IdleCall /\ hist' = << >>
  /\ UNCHANGED <<secret, now, tampered, artifact, guard, libVars>>

\* the guard process runs on the file it finds
GuardAfterEngine ==
  /\ cli.pc = "exited" /\ guard.pc = "none"
  /\ \E agenticEnv \in BOOLEAN, maxAgeMin \in MaxAgeChoices :
       guard' = [pc |-> "exited", agenticEnv |-> agenticEnv, maxAgeMin |-> maxAgeMin,
                 exitCode |-> guardAgenticWork(artifact, agenticEnv, maxAgeMin, now),
                 now |-> now]
  /\ UNCHANGED <<cfg, secret, now, hist, tampered, cli, artifact, libVars, call, prog,
                 orchVars>>

NextEngineThenGuard ==
  \/ CliMain \/ CliFallbackDone \/ CliWorkerFailed \/ CliWorkerDone
  \/ SpawnDepth1 \/ AfterDepth1 \/ SpawnDepth2 \/ AfterDepth2 \/ SpawnDepth3
  \/ AfterDepth3 \/ Merge \/ Rejects
  \/ Attempt \/ HostReply \/ HostFails
  \/ EngineRunsAgain \/ GuardAfterEngine

SpecEngineThenGuard == InitCli /\ [][NextEngineThenGuard]_vars

----------------------------------------------------------------------------
(* Properties *)

EventIndexes == 1..Len(events)
IsReturn(k) == events[k].kind = "return"
IsNote(k, note) == events[k].kind = "limit" /\ events[k].note = <<note>>
Retried(runId) == \E h \in 1..Len(hist) : hist[h].runId = runId /\ ~hist[h].gateOk
ProofIndexes == 1..Len(depth3ProofsVerified)

\* C1: the registry never holds more spawns than the configured budget
C1_SpawnBudget == totalSpawns <= cfg.maxSpawns

\* C1 witness: the budget is used up after a retried spawn, and the gate has refused one more
C1_Witness ==
  /\ cfg.maxSpawns > 0 /\ totalSpawns = cfg.maxSpawns
  /\ \E r \in DOMAIN runs : Retried(r)
  /\ \E k \in EventIndexes : IsNote(k, "spawn_limit")

\* C2: every registered run has depth < maxDepth, and a supervisedSpawn requested at
\* depth >= maxDepth ends refused with depth_limit, without a run id
C2_DepthBudget ==
  /\ \A r \in DOMAIN runs : runs[r].depth < cfg.maxDepth
  /\ (call.phase # "idle" /\ call.depth >= cfg.maxDepth)
       => /\ call.phase = "done" /\ ~call.ret.ok
          /\ call.ret.reason = "depth_limit" /\ call.runId = EMPTY

\* C2 witness: a spawn at depth = maxDepth was refused after shallower runs were registered
C2_Witness ==
  /\ call.phase = "done" /\ call.depth = cfg.maxDepth /\ call.ret.reason = "depth_limit"
  /\ DOMAIN runs # {}

\* C3: every return event carries the output hash the registry holds for its run
C3_ReturnHashMatchesRegistry ==
  \A k \in EventIndexes :
    IsReturn(k) => events[k].outputHash = runs[events[k].childRunId].outputHash

\* C4: every event of the trace verifies under the orchestrator's secret, with the
\* payload reconstructed as the validator reconstructs it
C4_SignaturesVerify ==
  \A k \in EventIndexes :
    /\ SigLengthOk(events[k].supervisorSig)
    /\ verifyEventSig(secret, ReconstructPayload(events[k]), events[k].supervisorSig)

\* C4 witness: a finished run whose trace holds spawn, return, limit and merge events
C4_Witness ==
  /\ prog.pc = "done"
  /\ \A kind \in {"spawn", "return", "limit", "merge"} :
       \E k \in EventIndexes : events[k].kind = kind

ExpectedProof(runId) == sha256Hex(ProofText(runs[runId].nonce, runId))

\* C6: a depth-3 supervisedSpawn returns ok only with the hash of the registry's nonce
\* and the run id; every recorded proof satisfies that equation; and the recorded
\* proofs are, one each, the depth-3 runs that passed their gate
C6_FrontierProof ==
  /\ (call.phase = "done" /\ call.depth = FrontierDepth /\ call.ret.ok)
       => call.ret.output.hashProof = ExpectedProof(call.runId)
  /\ \A i \in ProofIndexes :
       LET p == depth3ProofsVerified[i]
       IN /\ hasRun(runs, p.runId)
          /\ p.nonce = runs[p.runId].nonce
          /\ p.hashProof = ExpectedProof(p.runId)
          /\ \A j \in ProofIndexes : depth3ProofsVerified[j].runId = p.runId => j = i
  /\ {depth3ProofsVerified[i].runId : i \in ProofIndexes}
       = {r \in DOMAIN runs : runs[r].depth = FrontierDepth
                               /\ \E h \in 1..Len(hist) : hist[h].runId = r /\ hist[h].gateOk}

\* C6 witness: two proofs recorded, one of them after a rejected first answer
C6_Witness ==
  /\ Len(depth3ProofsVerified) = 2
  /\ \E i \in ProofIndexes : Retried(depth3ProofsVerified[i].runId)

ReturnsOf(runId) == {k \in EventIndexes : IsReturn(k) /\ events[k].childRunId = runId}

\* C7: a run has at most one return event, only for an output that passed the gate;
\* a run whose attempts all failed has none and stays 'spawned'; so return events
\* never outnumber spawn events
C7_ReturnOncePerRun ==
  /\ \A r \in DOMAIN runs :
       /\ Cardinality(ReturnsOf(r)) <= 1
       /\ Cardinality(ReturnsOf(r))
            = Cardinality({h \in 1..Len(hist) : hist[h].runId = r /\ hist[h].gateOk})
       /\ (\A h \in 1..Len(hist) : hist[h].runId = r => ~hist[h].gateOk)
            => runs[r].status = "spawned"
  /\ Cardinality({k \in EventIndexes : IsReturn(k)})
       <= Cardinality({k \in EventIndexes : events[k].kind = "spawn"})

\* the run went through the merge: every supervisedSpawn of runDepth3Proof returned ok
ReachedMerge == prog.pc = "done" /\ prog.result.reason = "none"

\* C8: a first-attempt gate failure followed by a passing second attempt is absorbed:
\* the spawn returns ok with the second output, and a run in which every spawn
\* succeeded ends ok with a trace that validateTrace accepts
C8_RetryAbsorbed ==
  /\ (call.phase = "done" /\ call.ret.ok /\ Retried(call.runId))
       => /\ call.ret.attempts = 2
          /\ hashOfOutput(call.ret.output) = hist[Len(hist)].outputHash
  /\ (ReachedMerge /\ \E r \in DOMAIN runs : Retried(r))
       => /\ prog.result.ok
          /\ validateTrace(secret, prog.result.trace, runs).ok

IsStrictStandalone == cfg.strictMode /\ ~cfg.hasAdapter /\ ~cfg.hasRunSubagent

\* C10: strict mode with neither adapter nor runSubagent: each execution (attempt 1 of
\* a registered run) appends one limit event tool_missing_strict for its run and
\* raises, so a registered run has exactly one such event; nothing is simulated, no
\* return or simulation_warning event exists, runtimeMode is never 'simulated'
C10_StrictRefusal ==
  IsStrictStandalone =>
    /\ runtimeMode = "null"
    /\ hist = << >>
    /\ \A k \in EventIndexes : ~IsReturn(k) /\ ~IsNote(k, "simulation_warning")
    /\ \A r \in DOMAIN runs :
         Cardinality({k \in EventIndexes : IsNote(k, "tool_missing_strict")
                                            /\ events[k].childRunId = r})
           = IF call.phase = "attempt" /\ call.runId = r THEN 0 ELSE 1
    /\ \A k \in EventIndexes : IsNote(k, "tool_missing_strict") => hasRun(runs, events[k].childRunId)
    /\ call.phase \notin {"await"}
    /\ (call.phase = "threw" /\ call.attempt >= 1)
         => /\ IsNote(Len(events), "tool_missing_strict")
            /\ events[Len(events)].childRunId = call.runId
    /\ (call.phase = "done") => ~call.ret.ok
    /\ prog.pc = "done" => prog.result.reason \in {"depth_limit", "spawn_limit"}
    /\ prog.pc = "crashed"
         => Cardinality({k \in EventIndexes : IsNote(k, "tool_missing_strict")}) = 1

\* C10 witness: runDepth3Proof has rejected with exactly one tool_missing_strict event
C10_Witness ==
  /\ IsStrictStandalone /\ prog.pc = "crashed"
  /\ Cardinality({k \in EventIndexes : IsNote(k, "tool_missing_strict")}) = 1
  /\ Len(events) = 2

\* C5: replacing one signed field of one event by a different value, with the
\* signature kept, makes validateTrace fail with bad_signature for that event
C5_TamperDetected ==
  tampered.done =>
    /\ ~tampered.validation.ok
    /\ \E i \in 1..Len(tampered.validation.errors) :
         tampered.validation.errors[i]
           = [eventId |-> tampered.trace[tampered.k].eventId, reason |-> "bad_signature"]

\* C9: a CLI run with forceSleep=true exits with code 5
C9_ForceSleepExits5 == (cli.pc = "exited" /\ cli.forceSleep) => cli.exitCode = 5

\* every subagent answer of the run passed its gate at the first attempt
AllAnswersPassed == \A h \in 1..Len(hist) : hist[h].gateOk

\* C11: in agentic mode (strictMode, host runSubagent present, no forced sleep) a run
\* whose spawn requests were all answered with gate-passing output and whose worker
\* handed back its result finishes with runtimeMode 'real', the agentic contract
\* satisfied, artifact ok=true and exit code 0
C11_AgenticSuccess ==
  (/\ cli.pc = "exited" /\ cli.strictMode /\ cli.hasRunSubagent /\ ~cli.forceSleep
   /\ ReachedMerge /\ AllAnswersPassed)
    => /\ cli.exitCode = 0
       /\ prog.result.runtimeMode = "real"
       /\ asleepDetector(prog.result, cli.strictMode)
       /\ cli.wrote => (artifact.ok = "true" /\ artifact.runtimeMode = "real")

\* what the guard is specified to accept
GuardAccepts ==
  /\ artifact.exists /\ artifact.content = "object"
  /\ artifact.ok = "true"
  /\ artifact.stamp \in {"timestampMs", "timestamp", "writtenAtMs"}
  /\ guard.now - artifact.timestampMs <= AgeLimitMs(guard.maxAgeMin)
  /\ (artifact.strictMode \/ guard.agenticEnv)
       => /\ artifact.runtimeMode = "real"
          /\ \A flag \in RequiredEngagement : artifact.engagement[flag]

\* C12: the guard exits 0 exactly when the artifact exists, parses, has ok=true,
\* is not older than the limit (an age equal to the limit is accepted) and, under
\* the agentic contract, has runtimeMode 'real' and the four engagement flags; in
\* every other case it exits 5
C12_GuardDecision ==
  guard.pc = "exited" => guard.exitCode = IF GuardAccepts THEN 0 ELSE 5

\* the CLI exited after runWithWorker handed back the worker's result
ExitedOnWorkerResult == cli.pc = "exited" /\ cli.hasRunSubagent /\ prog.pc = "done"

\* C13: with a worker result and no forced sleep the exit code is 2 if strictMode and
\* the runtime mode is not 'real', else 5 if the asleep contract is not satisfied,
\* else 1 if the result is not ok, else 0; every exit code is one of 0, 1, 2, 5
C13_ExitPriority ==
  /\ cli.pc = "exited" => cli.exitCode \in {0, 1, 2, 5}
  /\ (ExitedOnWorkerResult /\ ~cli.forceSleep)
       => cli.exitCode =
            IF cli.strictMode /\ prog.result.runtimeMode # "real" THEN 2
            ELSE IF ~asleepDetector(prog.result, cli.strictMode) THEN 5
            ELSE IF ~prog.result.ok THEN 1
            ELSE 0

\* C13 witness: a strict run whose asleep contract is also unsatisfied exits 2, not 5
C13_Witness ==
  /\ ExitedOnWorkerResult /\ ~cli.forceSleep /\ cli.strictMode
  /\ ~asleepDetector(prog.result, cli.strictMode)
  /\ cli.exitCode = 2

\* C14: a CLI run whose worker ended with {ok:false} and reason worker_error or
\* message_handler_error exits with code 1
C14_WorkerErrorExits1 ==
  (cli.pc = "exited" /\ cli.reason \in {"worker_error", "message_handler_error"})
    => cli.exitCode = 1

IsFrontier(depth) == depth = cfg.maxDepth - 1

\* C15: for every maxDepth, the nonce is generated, injected with the run id into the
\* input and stored in the registry, and the hash-proof gate is applied, exactly for
\* spawns at depth maxDepth - 1
C15_FrontierIsMaxDepthMinus1 ==
  /\ \A r \in DOMAIN runs : (runs[r].nonce # NULL) <=> IsFrontier(runs[r].depth)
  /\ call.phase \in {"attempt", "await"}
       => ((call.input.nonce # UNDEFINED /\ call.input.runId # UNDEFINED)
             <=> IsFrontier(call.depth))
  /\ \A i \in ProofIndexes : IsFrontier(runs[depth3ProofsVerified[i].runId].depth)
  /\ \A h \in 1..Len(hist) :
       (hist[h].gateOk /\ IsFrontier(runs[hist[h].runId].depth))
         => \E i \in ProofIndexes : depth3ProofsVerified[i].runId = hist[h].runId

\* C16: the result of a run in which a subagent was executed, and the artifact written
\* from it, have runtimeMode 'real' or 'simulated'
C16_RuntimeModeKnown ==
  (prog.pc = "done" /\ hist # << >>)
    => /\ prog.result.runtimeMode \in {"real", "simulated"}
       /\ (cli.pc = "exited" /\ cli.wrote) => artifact.runtimeMode \in {"real", "simulated"}


IsKind(k, kind) == events[k].kind = kind
IsSimulatedNominal ==
  /\ prog.pc \notin {"free", "cli"} /\ cli.pc = "none"
  /\ ~cfg.hasAdapter /\ ~cfg.hasRunSubagent /\ ~cfg.strictMode
  /\ cfg.maxDepth = 4 /\ cfg.maxSpawns >= 5

\* C17: a non-strict runDepth3Proof without adapter and without runSubagent, with
\* maxDepth 4 and maxSpawns >= 5, never throws and ends ok in runtime mode
\* 'simulated' with five runs, five spawn events, five return events, two verified
\* depth-3 proofs and one merge event noted merged_depth2_depth3_results that is the
\* last event of the trace, after every return event
C17_SimulatedNominalRun ==
  IsSimulatedNominal =>
    /\ prog.pc # "crashed"
    /\ prog.pc = "done" =>
         /\ prog.result.ok /\ prog.result.reason = "none"
         /\ prog.result.runtimeMode = "simulated"
         /\ prog.result.trace = events
         /\ Cardinality(DOMAIN runs) = 5 /\ totalSpawns = 5
         /\ Cardinality({events[k].childRunId : k \in {j \in EventIndexes : IsKind(j, "spawn")}}) = 5
         /\ Cardinality({k \in EventIndexes : IsKind(k, "spawn")}) = 5
         /\ Cardinality({k \in EventIndexes : IsKind(k, "return")}) = 5
         /\ Len(depth3ProofsVerified) = 2
         /\ prog.result.verification.depth3ProofVerified
         /\ Cardinality({k \in EventIndexes : IsKind(k, "merge")}) = 1
         /\ IsKind(Len(events), "merge")
         /\ events[Len(events)].note = <<"merged_depth2_depth3_results">>
         /\ \A k \in EventIndexes : IsKind(k, "return") => k < Len(events)

\* C17 witness: such a run has finished, at a clock later than the one it started on
C17_Witness ==
  /\ IsSimulatedNominal /\ prog.pc = "done" /\ prog.result.ok
  /\ now > 0 /\ \E k \in EventIndexes : IsKind(k, "merge")


IsRefusal(k) == IsNote(k, "spawn_limit") \/ IsNote(k, "depth_limit")
IsSimulatedHost == ~cfg.hasAdapter /\ ~cfg.hasRunSubagent /\ ~cfg.strictMode
IsProofRun == prog.pc \notin {"free", "cli"} /\ cli.pc = "none"
SpawnStarved == cfg.maxDepth = 4 /\ cfg.maxSpawns \in 0..4
DepthStarved == cfg.maxDepth <= 3 /\ cfg.maxSpawns >= 5

GateRefuses(depth) == depth >= cfg.maxDepth \/ totalSpawns >= cfg.maxSpawns
RefusalReason(depth) == IF depth >= cfg.maxDepth THEN "depth_limit" ELSE "spawn_limit"
EntersSupervisedSpawn == call.phase = "idle" /\ call'.phase # "idle"

\* C19: a supervisedSpawn that the gate refuses returns not ok with the refusal
\* reason (depth_limit when depth >= maxDepth, otherwise spawn_limit), appends one
\* limit event carrying that reason as its note and no run id, and leaves the
\* registry, the spawn count, the runtime mode, the verified proofs and the list of
\* subagent executions as they were; with maxSpawns = 0 the registry stays empty
C19_RefusalFrame ==
  [][ /\ (EntersSupervisedSpawn /\ GateRefuses(call'.depth)) =>
           /\ call'.phase = "done" /\ ~call'.ret.ok
           /\ call'.ret.reason = RefusalReason(call'.depth)
           /\ Len(events') = Len(events) + 1
           /\ SubSeq(events', 1, Len(events)) = events
           /\ events'[Len(events')].kind = "limit"
           /\ events'[Len(events')].note = <<RefusalReason(call'.depth)>>
           /\ events'[Len(events')].childRunId = NULL
           /\ eventSeq' = eventSeq + 1
           /\ UNCHANGED <<runs, totalSpawns, runtimeMode, depth3ProofsVerified, hist, cfg,
                          secret>>
      /\ (EntersSupervisedSpawn /\ cfg.maxSpawns = 0) =>
           /\ call'.ret.reason = RefusalReason(call'.depth)
           /\ totalSpawns' = 0 /\ DOMAIN runs' = {} /\ hist' = <<>>
    ]_vars

\* C19 witness: with maxSpawns = 0 the first spawn of a run has been refused for the
\* spawn budget, and the trace holds that one event
C19_Witness ==
  /\ cfg.maxSpawns = 0 /\ call.phase = "done" /\ call.depth < cfg.maxDepth
  /\ call.ret.reason = "spawn_limit" /\ Len(events) = 1 /\ IsNote(1, "spawn_limit")
  /\ totalSpawns = 0


HasChildRunId(k) == events[k].childRunId # NULL

\* C20: every trace event that names a child run (spawn, return or limit) names a
\* run of the registry, registered under the agent, depth and parent the spawn and
\* return events carry; spawn and return events always name one
C20_ChildRunIdsResolve ==
  \A k \in EventIndexes :
    /\ events[k].kind \in {"spawn", "return"} => HasChildRunId(k)
    /\ HasChildRunId(k) =>
         /\ hasRun(runs, events[k].childRunId)
         /\ events[k].kind \in {"spawn", "return", "limit"}
         /\ events[k].kind \in {"spawn", "return"} =>
              /\ runs[events[k].childRunId].agentName = events[k].agentName
              /\ runs[events[k].childRunId].depth = events[k].depth
              /\ runs[events[k].childRunId].parentRunId = events[k].parentRunId

\* C20 witness: a finished run whose trace names five runs in spawn and return events
C20_Witness ==
  /\ prog.pc = "done"
  /\ Cardinality({events[k].childRunId : k \in {j \in EventIndexes : IsKind(j, "spawn")}}) = 5
  /\ Cardinality({events[k].childRunId : k \in {j \in EventIndexes : IsReturn(j)}}) = 5
  /\ \E r \in DOMAIN runs : Retried(r)


\* C21: the trace only grows at its end, one event per addEvent: after every step
\* of the program the old trace is a prefix of the new one (nothing removed,
\* reordered or changed), the trace has grown by as many events as eventSeq has
\* counted addEvent calls, and the k-th event has eventId k
C21_TraceAppendOnly ==
  [][ /\ Len(events') >= Len(events)
      /\ SubSeq(events', 1, Len(events)) = events
      /\ Len(events') - Len(events) = eventSeq' - eventSeq
      /\ \A k \in 1..Len(events') : events'[k].eventId = k
      /\ eventSeq' = Len(events')
    ]_vars

\* C21 witness: a trace of at least eleven events that ends with the merge event
C21_Witness ==
  /\ Len(events) >= 11 /\ eventSeq = Len(events)
  /\ events[Len(events)].kind = "merge"


SpawnsOfRun(runId) ==
  {j \in EventIndexes : IsKind(j, "spawn") /\ events[j].childRunId = runId}

\* C22: every return event follows, in the trace and by eventId, the spawn event of
\* the same run id, which exists and is the only spawn event for that run id
C22_SpawnPrecedesReturn ==
  \A k \in EventIndexes :
    IsReturn(k) =>
      /\ Cardinality(SpawnsOfRun(events[k].childRunId)) = 1
      /\ \A j \in SpawnsOfRun(events[k].childRunId) :
           j < k /\ events[j].eventId < events[k].eventId

\* C22 witness: a run with two return events (a retried run), in a trace that goes
\* on with the spawn of another run
C22_Witness ==
  \E k \in EventIndexes :
    /\ IsReturn(k) /\ Cardinality(ReturnsOf(events[k].childRunId)) = 2
    /\ \E j \in EventIndexes : j > k /\ IsKind(j, "spawn")


TraceHasKind(trace, kinds) == \E k \in 1..Len(trace) : trace[k].kind \in kinds

\* C23: contractSatisfied of asleepDetector is, in strict mode, hasPreflightOk and
\* hasPlanCreated and hasSpawnOrRequest and verificationOk and runtimeMode 'real';
\* in local mode, a non-empty trace with at least one event of kind spawn, merge,
\* return or quality_gate_pass
C23_ContractSatisfied ==
  detector.pc = "returned" =>
    detector.contractSatisfied =
      IF detector.strictMode
        THEN /\ detector.engagement.hasPreflightOk
             /\ detector.engagement.hasPlanCreated
             /\ detector.engagement.hasSpawnOrRequest
             /\ detector.allSignaturesValid
             /\ detector.runtimeMode = "real"
        ELSE /\ Len(detector.trace) > 0
             /\ TraceHasKind(detector.trace,
                             {"spawn", "merge", "return", "quality_gate_pass"})


RetryMade == Len(retry.results)

\* C24: runWithRetry calls attemptFn with attempt 1, 2, ... in turn and never more
\* than maxAttempts times; it goes on only past results the gate rejected; it returns
\* the first passing result with ok and attempts = its 1-based index; when none
\* passes it returns not ok with reason quality_gate_failed_all_attempts, lastResult
\* = the last attempt's result (null when there was none) and attempts = the number
\* of attempts made
C24_RetryContract ==
  /\ RetryMade <= retry.maxAttempts
  /\ retry.called = [i \in 1..RetryMade |-> i]
  /\ \A i \in 1..RetryMade : i < RetryMade => retry.results[i] \notin retry.passing
  /\ retry.pc = "loop" => \A i \in 1..RetryMade : retry.results[i] \notin retry.passing
  /\ (retry.pc = "returned" /\ retry.ret.ok) =>
       /\ RetryMade >= 1 /\ retry.ret.attempts = RetryMade
       /\ retry.ret.result = retry.results[RetryMade]
       /\ retry.ret.result \in retry.passing
  /\ (retry.pc = "returned" /\ ~retry.ret.ok) =>
       /\ retry.ret.reason = "quality_gate_failed_all_attempts"
       /\ retry.ret.attempts = RetryMade
       /\ RetryMade = retry.maxAttempts
       /\ \A i \in 1..RetryMade : retry.results[i] \notin retry.passing
       /\ retry.ret.lastResult = IF RetryMade = 0 THEN "null" ELSE retry.results[RetryMade]

\* C24 witness: a call with maxAttempts 3 that returned ok on its third attempt
C24_Witness ==
  /\ retry.pc = "returned" /\ retry.maxAttempts = 3 /\ RetryMade = 3
  /\ retry.ret.ok /\ retry.ret.attempts = 3


PendingReqs == {i \in 1..Len(worker.reqs) : worker.reqs[i].state = "pending"}
SettlesOf(req) == {k \in 1..Len(worker.settles) : worker.settles[k].req = req}

\* C25: requests that are pending together have different ids and each has its
\* resolver in pendingRequests; a request is settled at most once, by a modelResult
\* with its id, rejected when the message has an error and resolved otherwise, and
\* its id then leaves pendingRequests; a modelResult whose id is not pending changes
\* nothing
C25_PendingRequests ==
  /\ [](/\ \A i, j \in PendingReqs : worker.reqs[i].id = worker.reqs[j].id => i = j
        /\ \A i \in PendingReqs :
             /\ worker.reqs[i].id \in DOMAIN worker.pendingRequests
             /\ worker.pendingRequests[worker.reqs[i].id] = i
        /\ \A id \in DOMAIN worker.pendingRequests :
             worker.pendingRequests[id] \in PendingReqs
        /\ \A i \in 1..Len(worker.reqs) :
             /\ Cardinality(SettlesOf(i)) <= 1
             /\ Cardinality(SettlesOf(i)) = IF i \in PendingReqs THEN 0 ELSE 1
             /\ \A k \in SettlesOf(i) :
                  /\ worker.settles[k].id = worker.reqs[i].id
                  /\ worker.reqs[i].state =
                       IF worker.settles[k].error THEN "rejected" ELSE "resolved")
  /\ [][ /\ Len(worker'.reqs) > Len(worker.reqs) =>
              worker'.reqs[Len(worker'.reqs)].id \notin DOMAIN worker.pendingRequests
         /\ (worker'.handled = worker.handled + 1
             /\ worker'.lastMsg.id \notin DOMAIN worker.pendingRequests) =>
              /\ worker'.pendingRequests = worker.pendingRequests
              /\ worker'.reqs = worker.reqs /\ worker'.settles = worker.settles
              /\ worker'.pc = worker.pc
         /\ (worker'.handled = worker.handled + 1
             /\ worker'.lastMsg.id \in DOMAIN worker.pendingRequests) =>
              /\ worker'.lastMsg.id \notin DOMAIN worker'.pendingRequests
              /\ Len(worker'.settles) = Len(worker.settles) + 1
       ]_vars

\* C25 witness: an id that came back for a second request after the first one with
\* it was settled, both settled, and a modelResult that found nothing pending
C25_Witness ==
  /\ \E i, j \in 1..Len(worker.reqs) :
       /\ i < j /\ worker.reqs[i].id = worker.reqs[j].id
       /\ worker.reqs[i].state = "rejected" \/ worker.reqs[i].state = "resolved"
       /\ worker.reqs[j].state = "resolved"
  /\ worker.handled > Len(worker.settles)


WorkerGoneEarly ==
  manager.thread = "exited" /\ worker.pc \notin {"done", "failed"}
    /\ manager.reason \notin {"tool_missing", "message_handler_error"}

\* C26: when the worker thread is gone before it has posted done or fail, the
\* promise of runWithWorker is resolved, sooner or later, with ok false and reason
\* worker_error
C26_WorkerGoneResolves ==
  [](WorkerGoneEarly =>
       <>(manager.promise = "resolved" /\ ~manager.ok /\ manager.reason = "worker_error"))


RegistryStep(op) == registry'.calls = registry.calls + 1 /\ registry'.last.op = op
RegistryUntouched ==
  registry'.runs = registry.runs /\ registry'.totalSpawns = registry.totalSpawns

\* C27: the registry holds one record per run id: the run ids of the registerSpawn
\* calls that returned are pairwise different, each is the key of its own record and
\* totalSpawns counts them; registerSpawn with a run id the registry holds throws
\* and leaves map and counter as they were, and so does registerReturn with a run
\* id it does not hold; any other call does not throw
C27_RunIdsUnique ==
  /\ [](/\ \A i, j \in 1..Len(registry.spawned) :
             registry.spawned[i] = registry.spawned[j] => i = j
        /\ DOMAIN registry.runs = {registry.spawned[i] : i \in 1..Len(registry.spawned)}
        /\ \A r \in DOMAIN registry.runs : registry.runs[r].runId = r
        /\ registry.totalSpawns = Cardinality(DOMAIN registry.runs))
  /\ [][ /\ RegistryStep("registerSpawn") =>
              IF registry'.last.runId \in DOMAIN registry.runs
                THEN registry'.last.threw /\ RegistryUntouched
                ELSE /\ ~registry'.last.threw
                     /\ registry'.totalSpawns = registry.totalSpawns + 1
                     /\ \A r \in DOMAIN registry.runs :
                          registry'.runs[r] = registry.runs[r]
         /\ RegistryStep("registerReturn") =>
              IF registry'.last.runId \in DOMAIN registry.runs
                THEN /\ ~registry'.last.threw
                     /\ registry'.runs[registry'.last.runId].status = "returned"
                     /\ registry'.totalSpawns = registry.totalSpawns
                ELSE registry'.last.threw /\ RegistryUntouched
       ]_vars

\* C27 witness: a registerSpawn refused for a run that had already returned, in a
\* registry of two runs
C27_Witness ==
  /\ registry.last.op = "registerSpawn" /\ registry.last.threw
  /\ registry.runs[registry.last.runId].status = "returned"
  /\ registry.totalSpawns = 2


StrictWithoutTool ==
  /\ confucius.pc # "none"
  /\ IF confucius.strictMode # "undefined" THEN confucius.strictMode = "true"
                                           ELSE confucius.autoStrict
  /\ "runSubagent" \notin confucius.capabilities

\* C28: runWithConfucius in effective strict mode (the explicit strictMode when
\* given, else the adapter's) with an adapter that lacks the runSubagent capability
\* returns ok false with reason tool_missing_strict and a trace that ends with
\* preflight_fail and holds no preflight_ok; no orchestrator is constructed and
\* nothing is spawned, whatever globalThis.runSubagent is
C28_PreflightRefusal ==
  StrictWithoutTool =>
    /\ ~confucius.constructed /\ prog.pc = "cli"
    /\ totalSpawns = 0 /\ events = <<>> /\ DOMAIN runs = {} /\ hist = <<>>
    /\ confucius.pc \in {"start", "returned"}
    /\ confucius.pc = "returned" =>
         /\ ~confucius.ok /\ confucius.reason = "tool_missing_strict"
         /\ confucius.preflight = "failed"
         /\ Len(confucius.trace) >= 1
         /\ confucius.trace[Len(confucius.trace)].kind = "preflight_fail"
         /\ confucius.trace[Len(confucius.trace)].note = <<"tool_missing_strict">>
         /\ ~TraceHasKind(confucius.trace, {"preflight_ok", "spawn"})
         /\ ~confucius.hadPlan /\ ~confucius.hadSpawn /\ ~confucius.hadQualityGate

\* C28 witness: refused on the explicit strictMode of an adapter that does not
\* detect strict mode itself, although globalThis.runSubagent exists
C28_Witness ==
  /\ StrictWithoutTool /\ confucius.pc = "returned"
  /\ confucius.strictMode = "true" /\ ~confucius.autoStrict /\ cfg.hasRunSubagent
  /\ confucius.reason = "tool_missing_strict"


\* C29: whatever the holder of an exported array does to the array or to the events
\* in it, the trace of the orchestrator stays as it was when export() was called: a
\* later export() gives the same events and validateTrace gives the same verdict
C29_ExportIsDefensiveCopy ==
  exported.pc = "held" =>
    /\ events = exported.snapshot
    /\ validateTrace(secret, events, runs) = validateTrace(secret, exported.snapshot, runs)


\* C30: loadSupervisorSecret returns the environment value exactly when it is set and
\* decodes from base64 to at least 32 bytes, and 32 random bytes otherwise; the
\* secret returned is never shorter than 32 bytes
C30_SecretAtLeast32Bytes ==
  secretLoad.pc = "returned" =>
    /\ (secretLoad.result.source = "env") <=>
         (secretLoad.env.set /\ Base64Bytes(secretLoad.env) >= 32)
    /\ secretLoad.result.bytes >= 32


\* the executions of a run's subagent that came back with an output
ExecutionsOf(runId) == {h \in 1..Len(hist) : hist[h].runId = runId}
FailedExecutionsOf(runId) == {h \in ExecutionsOf(runId) : ~hist[h].gateOk}
PassedSpawnGate == call.phase # "idle" /\ call.runId # EMPTY /\ hasRun(runs, call.runId)

ParamText == <<host.params.description>> \o host.params.prompt

\* C32: in worker mode, when the host invokes runSubagent for a depth-3 spawn, what
\* it passes contains the nonce and the runId the orchestrator injected into the input
C32_ProofMaterialReachesSubagent ==
  (cfg.hasAdapter /\ host.pc = "invoked" /\ call.depth = FrontierDepth) =>
    /\ Includes(ParamText, call.input.nonce)
    /\ Includes(ParamText, call.input.runId)


\* C33: when a run is executed a second time after a failed gate, tightenPromptFn was
\* called with the first attempt's number and gate errors, and the prompt of the
\* second execution differs from the prompt of the first
C33_RetryTightensPrompt ==
  \A i, j \in 1..Len(host.executions) :
    (/\ host.executions[i].runId = host.executions[j].runId
     /\ host.executions[i].attempt = 1 /\ host.executions[j].attempt = 2) =>
      /\ host.executions[j].prompt # host.executions[i].prompt
      /\ \E t \in 1..Len(host.tightenCalls) :
           /\ host.tightenCalls[t].runId = host.executions[i].runId
           /\ host.tightenCalls[t].attempt = 1


SimulationWarnings == {k \in EventIndexes : IsNote(k, "simulation_warning")}

\* C34: the trace holds at most one simulation_warning event, it holds one exactly
\* when runtimeMode is 'simulated', and runtimeMode, once 'real' or 'simulated', keeps
\* its value, also when runSubagent appears or disappears while the orchestrator lives
C34_RuntimeModeSetOnce ==
  /\ [](/\ Cardinality(SimulationWarnings) <= 1
        /\ (SimulationWarnings # {}) <=> (runtimeMode = "simulated")
        /\ runtimeMode \in {"null", "real", "simulated"})
  /\ [][runtimeMode # "null" => runtimeMode' = runtimeMode]_vars

\* C34 witness: the mode is 'simulated' with its one warning, runSubagent has appeared
\* since, and an execution by the real tool is in flight
C34_Witness ==
  /\ runtimeMode = "simulated" /\ Cardinality(SimulationWarnings) = 1
  /\ cfg.hasRunSubagent /\ call.phase = "await" /\ Len(hist) >= 2


SpawnEvents(depth) == {k \in EventIndexes : events[k].kind = "spawn" /\ events[k].depth = depth}
InFlight == {r \in DOMAIN runs : runs[r].status = "spawned"}
\* the name runDepth3Proof gives to the child of the n-th request of the depth-1 output
RequestedName(n) ==
  IF Falsy(prog.spawnReqs[n].child_name) THEN DefaultDepth2Name(n)
  ELSE prog.spawnReqs[n].child_name[1]
AppendsSpawn ==
  \E k \in (Len(events) + 1)..Len(events') : events'[k].kind = "spawn"

AskedMaxDepth == IF confucius.config.given THEN confucius.config.maxDepth ELSE DefaultMaxDepth
AskedMaxSpawns == IF confucius.config.given THEN confucius.config.maxSpawns ELSE DefaultMaxSpawns
Answered == confucius.constructed /\ confucius.pc = "returned" /\ prog.pc = "done"

\* C36: the orchestrator runWithConfucius constructs enforces the maxDepth and
\* maxSpawns the caller passed, 0 included, and the defaults 4 and 10 only when none
\* is passed: with maxDepth 0 the depth-1 spawn is refused with depth_limit, with
\* maxSpawns 0 (and a depth that allows it) with spawn_limit
C36_LimitsAsPassed ==
  confucius.constructed =>
    /\ cfg.maxDepth = AskedMaxDepth
    /\ cfg.maxSpawns = AskedMaxSpawns
    /\ (Answered /\ AskedMaxDepth = 0) =>
         (confucius.reason = "depth_limit" /\ totalSpawns = 0)
    /\ (Answered /\ AskedMaxDepth > 0 /\ AskedMaxSpawns = 0) =>
         (confucius.reason = "spawn_limit" /\ totalSpawns = 0)


\* C37: validateTrace returns for every trace: an event whose supervisorSig is missing,
\* not hex or of another length gives a bad_signature error for its eventId, all
\* events are checked (eventsChecked is the length of the trace), and ok is true
\* exactly when the errors list is empty
C37_ValidateNeverRaises ==
  (tampered.done /\ tampered.field = "supervisorSig") =>
    /\ ~tampered.validation.threw
    /\ tampered.validation.eventsChecked = Len(tampered.trace)
    /\ tampered.validation.ok <=> (tampered.validation.errors = <<>>)
    /\ \E i \in 1..Len(tampered.validation.errors) :
         tampered.validation.errors[i]
           = [eventId |-> tampered.trace[tampered.k].eventId, reason |-> "bad_signature"]


\* C38: when the CLI has written a proof artifact and exited, on the worker path and
\* on the fallback path, the artifact's ok is true exactly when the exit code is 0
C38_ArtifactOkIffExit0 ==
  (cli.pc = "exited" /\ cli.wrote) => ((artifact.ok = "true") <=> (cli.exitCode = 0))


\* C38 witness: a strict worker run whose proof succeeded has written an artifact
\* with ok false and exited with code 2
C38_Witness ==
  /\ cli.pc = "exited" /\ cli.wrote /\ artifact.workerMode /\ cli.strictMode
  /\ prog.result.ok /\ artifact.ok = "false" /\ cli.exitCode = 2


\* C39: a guard run inside the freshness window exits 0 only if the most recent
\* engine run exited 0
C39_GuardFollowsLastRun ==
  (guard.pc = "exited" /\ guard.exitCode = 0) => (cli.pc = "exited" /\ cli.exitCode = 0)


\* the run of the n-th depth-2 child
Depth2Run(n) ==
  LET k == CHOOSE j \in SpawnEvents(2) : Cardinality({q \in SpawnEvents(2) : q <= j}) = n
  IN events[k].childRunId

\* C40: at the end of a run every output handed back in result.output.depth2Outputs
\* still hashes to the outputHash that the registry and a return event hold for its
\* run
C40_OutputsKeepTheirHash ==
  (IsProofRun /\ ReachedMerge) =>
    \A n \in 1..Len(prog.result.depth2Outputs) :
      LET h == hashOfOutput(prog.result.depth2Outputs[n])
      IN /\ h = runs[Depth2Run(n)].outputHash
         /\ \E k \in EventIndexes :
              /\ IsReturn(k) /\ events[k].childRunId = Depth2Run(n)
              /\ events[k].outputHash = h

====
